---- MODULE Spec2Model ----
(***************************************************************************)
(* Tiered article resolver of the AventurOO site.                          *)
(*                                                                         *)
(* Two article scripts ship in the repository and both are modelled:       *)
(*   part_008  the Summary/Manifest resolver  (archive, hot, legacy)       *)
(*   part_009  the canonical-document resolver (hot, canonical, legacy)    *)
(* Definitions carrying the suffix 8 or 9 exist in one of the files only   *)
(* (or differ between them); the others are textually identical in both.   *)
(*                                                                         *)
(* Text is modelled as a sequence of one-character strings, so that        *)
(* slugify, trim and padNumber are computed and not assumed.               *)
(***************************************************************************)
EXTENDS Integers, Sequences, FiniteSets, TLC

\* ------------------------------------------------------------------ bounds
\* months of 2024 that an archive tree holds in the resolver worlds
MaxMonths == 2
\* resources (files) that are unavailable in one world
MaxFail == 1
\* the months the Summary lists for a scope in the lookback runs
MaxListed == 13
\* MAX_MONTHS of the search index loader (part_006)
MAX_MONTHS == 12
\* shard queries one component of a page makes
MaxQueries == 1
\* posts handed to one Deduper
MaxBatch == 2
\* entries of the hot manifest the verification script reads
MaxShards == 2
\* items of the hot shard a rotation pass finds
MaxHot == 2
\* rotation passes run in a row
MaxPasses == 2
\* the retention window of the rotation runs, in days
RetentionDays == 1
\* items of the payload of a shard fetched on its own
MaxShardItems == 2
\* categories of the taxonomy file
MaxCategories == 2
\* entries of the archive list a category payload or the summary carries
MaxArchiveEntries == 2
\* clicks on the load-more button
MaxClicks == 3
\* the page parameter of a category page
MaxPageParam == 3

\* ------------------------------------------------------------------ text
EMPTY == << >>
INDEX == <<"i", "n", "d", "e", "x">>
NEWS == <<"n", "e", "w", "s">>
EU == <<"e", "u">>
ASIA == <<"a", "s", "i", "a">>

LowerLetters ==
  {"a","b","c","d","e","f","g","h","i","j","k","l","m",
   "n","o","p","q","r","s","t","u","v","w","x","y","z"}
DigitChars == {"0","1","2","3","4","5","6","7","8","9"}
DigitSeq == <<"0","1","2","3","4","5","6","7","8","9">>

\* String.prototype.toLowerCase on one character
toLowerCase(c) ==
  CASE c = "A" -> "a" [] c = "B" -> "b" [] c = "E" -> "e" [] c = "H" -> "h"
    [] c = "L" -> "l" [] c = "M" -> "m" [] c = "N" -> "n" [] c = "T" -> "t"
    [] OTHER -> c

IsSpace(c) == c \in {" "}

RECURSIVE trimLeft(_)
trimLeft(s) == IF s # EMPTY /\ IsSpace(Head(s)) THEN trimLeft(Tail(s)) ELSE s

RECURSIVE trimRight(_)
trimRight(s) ==
  IF s # EMPTY /\ IsSpace(s[Len(s)]) THEN trimRight(SubSeq(s, 1, Len(s) - 1)) ELSE s

\* String.prototype.trim
trim(s) == trimRight(trimLeft(s))

EndsWith(s, suffix) ==
  /\ Len(s) >= Len(suffix)
  /\ SubSeq(s, Len(s) - Len(suffix) + 1, Len(s)) = suffix

\* .replace(/\.html?$/i, '') on lower-cased text
stripHtmlSuffix(s) ==
  IF EndsWith(s, <<".", "h", "t", "m", "l">>) THEN SubSeq(s, 1, Len(s) - 5)
  ELSE IF EndsWith(s, <<".", "h", "t", "m">>) THEN SubSeq(s, 1, Len(s) - 4)
  ELSE s

\* .replace(/&/g, 'and')
RECURSIVE replaceAmp(_)
replaceAmp(s) ==
  IF s = EMPTY THEN EMPTY
  ELSE IF Head(s) = "&" THEN <<"a", "n", "d">> \o replaceAmp(Tail(s))
  ELSE <<Head(s)>> \o replaceAmp(Tail(s))

IsWordChar(c) == c \in LowerLetters \cup DigitChars

\* .replace(/[_\W]+/g, '-'): every run of non-alphanumerics becomes one hyphen
RECURSIVE collapseNonWord(_, _)
collapseNonWord(s, inRun) ==
  IF s = EMPTY THEN EMPTY
  ELSE IF IsWordChar(Head(s)) THEN <<Head(s)>> \o collapseNonWord(Tail(s), FALSE)
  ELSE IF inRun THEN collapseNonWord(Tail(s), TRUE)
  ELSE <<"-">> \o collapseNonWord(Tail(s), TRUE)

\* .replace(/^-+|-+$/g, '') after the collapse (at most one hyphen at each end)
stripHyphens(s) ==
  LET a == IF s # EMPTY /\ Head(s) = "-" THEN Tail(s) ELSE s
  IN IF a # EMPTY /\ a[Len(a)] = "-" THEN SubSeq(a, 1, Len(a) - 1) ELSE a

slugify(value) ==
  LET lowered == [i \in 1..Len(trim(value)) |-> toLowerCase(trim(value)[i])]
  IN stripHyphens(collapseNonWord(replaceAmp(stripHtmlSuffix(lowered)), FALSE))

RECURSIVE digitsOf(_)
digitsOf(n) ==
  IF n < 10 THEN <<DigitSeq[n + 1]>> ELSE digitsOf(n \div 10) \o <<DigitSeq[(n % 10) + 1]>>

RECURSIVE zeroPad(_, _)
zeroPad(s, length) == IF Len(s) < length THEN zeroPad(<<"0">> \o s, length) ELSE s

\* padNumber: decimal digits of |value|, left-padded with zeros to length
padNumber(value, length) ==
  zeroPad(digitsOf(IF value < 0 THEN 0 - value ELSE value), length)

DigitValue(c) == CHOOSE d \in 0..9 : DigitSeq[d + 1] = c

RECURSIVE parseInt(_)
parseInt(s) ==
  IF s = EMPTY THEN 0 ELSE parseInt(SubSeq(s, 1, Len(s) - 1)) * 10 + DigitValue(s[Len(s)])

\* /^\d{n}$/.test(s)
IsDigits(s, n) == Len(s) = n /\ \A i \in 1..Len(s) : s[i] \in DigitChars

\* String.prototype.split on a one-character separator
RECURSIVE split(_, _)
split(s, sep) ==
  IF \A i \in 1..Len(s) : s[i] # sep THEN <<s>>
  ELSE LET k == CHOOSE i \in 1..Len(s) : s[i] = sep /\ \A j \in 1..(i - 1) : s[j] # sep
       IN <<SubSeq(s, 1, k - 1)>> \o split(SubSeq(s, k + 1, Len(s)), sep)

contains(s, c) == \E i \in 1..Len(s) : s[i] = c

\* ------------------------------------------------------------------ values
\* null / undefined of the scripts
NULL == [null |-> TRUE]
IsNull(x) == x = NULL

\* a property read: undefined reads as the empty (falsy) string
Field(obj, name) == IF name \in DOMAIN obj THEN obj[name] ELSE EMPTY

\* a numeric property read (dates, year, month): undefined reads as 0
Num(obj, name) == IF name \in DOMAIN obj THEN obj[name] ELSE 0

\* URL text: blank, or origin + "/" + segments joined by "/" (+ "/"),
\* possibly surrounded by whitespace (pad)
NoUrl == [kind |-> "empty"]
BlankUrl == [kind |-> "blank"]
MkUrl(origin, segs, pad) ==
  [kind |-> "url", origin |-> origin, segs |-> segs, slash |-> TRUE, pad |-> pad]
UrlField(obj, name) == IF name \in DOMAIN obj THEN obj[name] ELSE NoUrl
\* JavaScript truthiness of URL text: any non-empty string
UrlTruthy(u) == u.kind # "empty"
\* String.prototype.trim on URL text
trimUrl(u) ==
  IF u.kind = "blank" THEN NoUrl
  ELSE IF u.kind = "url" THEN [u EXCEPT !.pad = FALSE]
  ELSE u

\* ------------------------------------------------------------------ posts
normalizePostsPayload(payload) ==
  IF IsNull(payload) THEN << >>
  ELSE IF "array" \in DOMAIN payload THEN payload.array
  ELSE IF "items" \in DOMAIN payload THEN payload.items
  ELSE IF "posts" \in DOMAIN payload THEN payload.posts
  ELSE IF "data" \in DOMAIN payload THEN payload.data
  ELSE IF "results" \in DOMAIN payload THEN payload.results
  ELSE << >>

\* dates are yyyymm numbers; 0 stands for a missing or unparseable date
parseDateValue(value) == value

getPostTimestamp(post) ==
  IF IsNull(post) THEN 0
  ELSE IF parseDateValue(Num(post, "date")) # 0 THEN parseDateValue(Num(post, "date"))
  ELSE IF parseDateValue(Num(post, "updated_at")) # 0 THEN parseDateValue(Num(post, "updated_at"))
  ELSE IF parseDateValue(Num(post, "published_at")) # 0 THEN parseDateValue(Num(post, "published_at"))
  ELSE parseDateValue(Num(post, "created_at"))

RECURSIVE insertByDate(_, _)
insertByDate(sorted, post) ==
  IF sorted = << >> THEN <<post>>
  ELSE IF getPostTimestamp(Head(sorted)) >= getPostTimestamp(post)
       THEN <<Head(sorted)>> \o insertByDate(Tail(sorted), post)
       ELSE <<post>> \o sorted

\* Array.prototype.sort is stable: newest first, ties keep their order
RECURSIVE sortPostsByDate(_)
sortPostsByDate(posts) ==
  IF posts = << >> THEN << >>
  ELSE insertByDate(sortPostsByDate(SubSeq(posts, 1, Len(posts) - 1)), posts[Len(posts)])

lowerText(s) == [i \in 1..Len(s) |-> toLowerCase(s[i])]

resolvePostKey(post) ==
  IF IsNull(post) THEN EMPTY
  ELSE IF Field(post, "slug") # EMPTY THEN slugify(post.slug)
  ELSE IF Field(post, "url") # EMPTY THEN lowerText(trim(post.url))
  ELSE IF Field(post, "source") # EMPTY THEN lowerText(trim(post.source))
  ELSE IF Field(post, "title") # EMPTY THEN slugify(post.title)
  ELSE EMPTY

RECURSIVE dedupeFrom(_, _, _)
\* one turn of the loop of dedupePosts, given the key of the first post left
dedupeStep(posts, seen, list, key) ==
  IF key # EMPTY /\ key \in seen THEN dedupeFrom(Tail(posts), seen, list)
  ELSE dedupeFrom(Tail(posts), IF key # EMPTY THEN seen \cup {key} ELSE seen,
                  Append(list, Head(posts)))

dedupeFrom(posts, seen, list) ==
  IF posts = << >> THEN list ELSE dedupeStep(posts, seen, list, resolvePostKey(Head(posts)))

dedupePosts(posts) == dedupeFrom(posts, {}, << >>)

\* getPostParentSlug, given category_slug, its parts and its normalised form
parentSlugOf(post, raw, parts, normalizedAll) ==
  IF IsNull(post) THEN EMPTY
  ELSE IF raw # EMPTY /\ Len(parts) > 1 /\ parts[1] # EMPTY THEN parts[1]
  ELSE IF raw # EMPTY /\ contains(normalizedAll, "-") /\ split(normalizedAll, "-")[1] # EMPTY
       THEN split(normalizedAll, "-")[1]
  ELSE IF Field(post, "category") # EMPTY THEN slugify(post.category)
  ELSE EMPTY

\* a list of texts, each normalised
RECURSIVE slugifyAll(_)
slugifyAll(parts) ==
  IF parts = << >> THEN << >> ELSE <<slugify(Head(parts))>> \o slugifyAll(Tail(parts))

getPostParentSlug(post) ==
  parentSlugOf(post, Field(post, "category_slug"),
               slugifyAll(split(Field(post, "category_slug"), "/")),
               slugify(Field(post, "category_slug")))

\* getPostChildSlug, given category_slug and its normalised parts
childSlugOf(post, raw, parts) ==
  IF IsNull(post) THEN EMPTY
  ELSE IF raw # EMPTY /\ Len(parts) > 1 /\ parts[Len(parts)] # EMPTY THEN parts[Len(parts)]
  ELSE IF Field(post, "subcategory") # EMPTY THEN slugify(post.subcategory)
  ELSE EMPTY

getPostChildSlug(post) ==
  childSlugOf(post, Field(post, "category_slug"),
              slugifyAll(split(Field(post, "category_slug"), "/")))

OrIndex(s) == IF s = EMPTY THEN INDEX ELSE s

\* matchesScope, given the scope's parent and child and those of the post
scopeMatch(post, scope, parent, child, postParent, postChild) ==
  IF IsNull(post) THEN FALSE
  ELSE IF IsNull(scope) THEN TRUE
  ELSE IF parent = INDEX /\ child = INDEX THEN TRUE
  ELSE IF child # INDEX THEN postChild # EMPTY /\ postChild = child
  ELSE IF parent = INDEX THEN TRUE
  ELSE postParent # EMPTY /\ postParent = parent

matchesScope(post, scope) ==
  scopeMatch(post, scope, OrIndex(Field(scope, "parent")), OrIndex(Field(scope, "child")),
             getPostParentSlug(post), getPostChildSlug(post))

filterPostsByScope(posts, scope) == SelectSeq(posts, LAMBDA post : matchesScope(post, scope))

\* the first element of a list whose position is in hits (NULL: none)
FirstAt(list, hits) ==
  IF hits = {} THEN NULL ELSE list[CHOOSE i \in hits : \A j \in hits : i <= j]

\* the loop of findPostBySlug, given the normalised slug
firstWithSlug(posts, normalized) ==
  IF normalized = EMPTY THEN NULL
  ELSE FirstAt(posts,
               {i \in 1..Len(posts) :
                  /\ ~IsNull(posts[i])
                  /\ \/ Field(posts[i], "slug") # EMPTY /\ slugify(posts[i].slug) = normalized
                     \/ Field(posts[i], "slug") = EMPTY /\ Field(posts[i], "title") # EMPTY
                          /\ slugify(posts[i].title) = normalized})

\* findPostBySlug looking for the slug as typed
findPostBySlugRaw(posts, slugValue) == firstWithSlug(posts, slugValue)
\* the first post whose normalized slug (or, without a slug, title) is the
\* normalized slugValue; NULL when there is none
findPostBySlug(posts, slugValue) == firstWithSlug(posts, slugify(slugValue))

\* ------------------------------------------------------------------ canonical
ARCHIVE_ORIGIN == "https://archive.aventuroo.com"

\* the year/month place of a path: the first i with a 4-digit and a 2-digit
\* segment at i and i+1 and a segment after them (0: none)
least(found) == IF found = {} THEN 0 ELSE CHOOSE i \in found : \A j \in found : i <= j

yearIndex(segments) ==
  least({i \in 1..(Len(segments) - 2) :
           IsDigits(segments[i], 4) /\ IsDigits(segments[i + 1], 2)})

\* part_008: origin, parent, child, year, month and slug read off a canonical URL
\* (year = 0 and month = 0 stand for null)
parseSegments8(origin, segments, n, i, parentSegments) ==
  IF n >= 5 /\ IsDigits(segments[3], 4) /\ IsDigits(segments[4], 2)
  THEN [origin |-> origin, parent |-> OrIndex(slugify(segments[1])),
        child |-> OrIndex(slugify(segments[2])), year |-> parseInt(segments[3]),
        month |-> parseInt(segments[4]), slug |-> slugify(segments[5])]
  ELSE IF n >= 4 /\ IsDigits(segments[2], 4) /\ IsDigits(segments[3], 2)
  THEN [origin |-> origin, parent |-> OrIndex(slugify(segments[1])),
        child |-> INDEX, year |-> parseInt(segments[2]),
        month |-> parseInt(segments[3]), slug |-> slugify(segments[4])]
  ELSE IF i # 0
  THEN [origin |-> origin,
        parent |-> IF Len(parentSegments) >= 1
                   THEN OrIndex(slugify(parentSegments[1])) ELSE INDEX,
        child |-> IF Len(parentSegments) >= 2
                  THEN OrIndex(slugify(parentSegments[Len(parentSegments)])) ELSE INDEX,
        year |-> parseInt(segments[i]), month |-> parseInt(segments[i + 1]),
        slug |-> slugify(segments[i + 2])]
  ELSE [origin |-> origin, parent |-> INDEX, child |-> INDEX,
        year |-> 0, month |-> 0, slug |-> EMPTY]

\* the slug falls back to the last path segment
withSlug8(info, last) == IF info.slug = EMPTY THEN [info EXCEPT !.slug = slugify(last)] ELSE info

parseSegmentList8(origin, segments, i) ==
  IF segments = << >> THEN NULL
  ELSE withSlug8(parseSegments8(origin, segments, Len(segments), i,
                                SubSeq(segments, 1, i - 1)),
                 segments[Len(segments)])

parsePath8(origin, segments) == parseSegmentList8(origin, segments, yearIndex(segments))

parseCanonicalUrl8(url) ==
  IF trimUrl(url).kind # "url" THEN NULL
  ELSE parsePath8(url.origin, SelectSeq(url.segs, LAMBDA segment : segment # EMPTY))

\* part_009: the last three path segments are parent, child and slug
parsePath9(origin, segments, n) ==
  IF n = 0 THEN NULL
  ELSE [origin |-> origin,
        parent |-> OrIndex(slugify(IF n >= 3 THEN segments[n - 2] ELSE INDEX)),
        child |-> OrIndex(slugify(IF n >= 2 THEN segments[n - 1] ELSE INDEX)),
        slug |-> slugify(segments[n])]

parseCanonicalUrl9(url) ==
  IF trimUrl(url).kind # "url" THEN NULL
  ELSE parsePath9(url.origin, SelectSeq(url.segs, LAMBDA segment : segment # EMPTY),
                  Len(SelectSeq(url.segs, LAMBDA segment : segment # EMPTY)))

\* the path without the year and month segments
buildCanonicalPathUndated(context, slugValue) ==
  <<OrIndex(Field(context, "parent")), OrIndex(Field(context, "child")),
    slugify(IF Field(context, "slug") # EMPTY THEN context.slug ELSE slugValue)>>

\* part_008: parent/child[/yyyy][/mm][/slug]/ as the list of its segments
buildCanonicalPath8(context, slugValue) ==
  LET parent == OrIndex(Field(context, "parent"))
      child == OrIndex(Field(context, "child"))
      year == IF Num(context, "year") # 0 THEN <<padNumber(context.year, 4)>> ELSE << >>
      month == IF Num(context, "month") # 0 THEN <<padNumber(context.month, 2)>> ELSE << >>
      finalSlug == slugify(IF Field(context, "slug") # EMPTY THEN context.slug ELSE slugValue)
  IN <<parent, child>> \o year \o month
       \o (IF finalSlug # EMPTY THEN <<finalSlug>> ELSE << >>)

\* part_009: parent/child[/slug]/, never a year or a month
buildCanonicalPath9(context, slugValue) ==
  LET parent == OrIndex(slugify(Field(context, "parent")))
      child == OrIndex(slugify(Field(context, "child")))
      finalSlug == slugify(IF Field(context, "slug") # EMPTY THEN context.slug ELSE slugValue)
  IN <<parent, child>> \o (IF finalSlug # EMPTY THEN <<finalSlug>> ELSE << >>)

\* an origin read off a context ("" when the context has none)
OriginOf(context) == IF "origin" \in DOMAIN context THEN context.origin ELSE ""

computeCanonicalUrl8(post, context) ==
  IF UrlTruthy(trimUrl(UrlField(post, "canonical"))) THEN trimUrl(post.canonical)
  ELSE MkUrl(IF OriginOf(context) # "" THEN OriginOf(context) ELSE ARCHIVE_ORIGIN,
             buildCanonicalPath8(context, Field(post, "slug")), FALSE)

computeCanonicalUrl9(post, context) ==
  IF UrlTruthy(trimUrl(UrlField(post, "canonical"))) THEN trimUrl(post.canonical)
  ELSE MkUrl(IF OriginOf(context) # "" THEN OriginOf(context) ELSE ARCHIVE_ORIGIN,
             buildCanonicalPath9(context, Field(post, "slug")), FALSE)

\* post.canonical || post.archive_url || ''
canonicalOrArchiveUrl(post) ==
  IF UrlTruthy(UrlField(post, "canonical")) THEN post.canonical ELSE UrlField(post, "archive_url")

\* post.date || post.published_at || post.created_at || post.updated_at
firstDate(post) ==
  IF Num(post, "date") # 0 THEN post.date
  ELSE IF Num(post, "published_at") # 0 THEN post.published_at
  ELSE IF Num(post, "created_at") # 0 THEN post.created_at
  ELSE Num(post, "updated_at")

\* post.slug || post.title || ''
slugOrTitle(post) == IF Field(post, "slug") # EMPTY THEN post.slug ELSE Field(post, "title")

\* part_009: the context of a post without a canonical URL
scopeContext(post, fallbackScope) ==
  [origin |-> ARCHIVE_ORIGIN,
   parent |-> IF Field(fallbackScope, "parent") # EMPTY THEN fallbackScope.parent
              ELSE OrIndex(getPostParentSlug(post)),
   child |-> IF Field(fallbackScope, "child") # EMPTY THEN fallbackScope.child
             ELSE OrIndex(getPostChildSlug(post)),
   slug |-> slugify(slugOrTitle(post))]

\* ensureArchiveContextFromPost of part_008, given what parseCanonicalUrl and
\* parseDateValue returned
contextFromPost8(post, fallbackScope, canonicalInfo, timestamp) ==
  IF IsNull(post) THEN NULL
  ELSE IF ~IsNull(canonicalInfo) /\ canonicalInfo.year # 0 /\ canonicalInfo.month # 0
       THEN canonicalInfo
  ELSE IF timestamp = 0 THEN NULL
  ELSE [origin |-> ARCHIVE_ORIGIN,
        parent |-> IF Field(fallbackScope, "parent") # EMPTY THEN fallbackScope.parent
                   ELSE OrIndex(getPostParentSlug(post)),
        child |-> IF Field(fallbackScope, "child") # EMPTY THEN fallbackScope.child
                  ELSE OrIndex(getPostChildSlug(post)),
        year |-> timestamp \div 100,
        month |-> timestamp % 100,
        slug |-> slugify(slugOrTitle(post))]

ensureArchiveContextFromPost8(post, fallbackScope) ==
  contextFromPost8(post, fallbackScope, parseCanonicalUrl8(canonicalOrArchiveUrl(post)),
                   parseDateValue(firstDate(post)))

\* ensureArchiveContextFromPost of part_009, given what parseCanonicalUrl returned
contextFromPost9(post, fallbackScope, canonicalInfo) ==
  IF IsNull(post) THEN NULL
  ELSE IF ~IsNull(canonicalInfo)
       THEN [canonicalInfo EXCEPT
               !.parent = IF @ = INDEX /\ Field(fallbackScope, "parent") # EMPTY
                          THEN fallbackScope.parent ELSE @,
               !.child = IF @ = INDEX /\ Field(fallbackScope, "child") # EMPTY
                         THEN fallbackScope.child ELSE @,
               !.origin = IF @ = "" THEN ARCHIVE_ORIGIN ELSE @]
  ELSE scopeContext(post, fallbackScope)

ensureArchiveContextFromPost9(post, fallbackScope) ==
  contextFromPost9(post, fallbackScope, parseCanonicalUrl9(canonicalOrArchiveUrl(post)))

\* the canonical URL a rendered page publishes (link rel=canonical, og:url);
\* view is { context, scope } as renderPost passes it on
updateSeoMetadata8(post, view) ==
  LET canonicalContext ==
        IF ~IsNull(view.context) THEN view.context
        ELSE ensureArchiveContextFromPost8(post, view.scope)
  IN computeCanonicalUrl8(post, canonicalContext)

updateSeoMetadata9(post, view) ==
  LET canonicalContext ==
        IF ~IsNull(view.context) THEN view.context
        ELSE ensureArchiveContextFromPost9(post, view.scope)
  IN computeCanonicalUrl9(post, canonicalContext)

\* ------------------------------------------------------------------ state
VARIABLES
  resolver,                  \* which article script the page runs
  world,                     \* the published data tree (what each file holds)
  slugCandidates, scopeHint, \* the request: slug hints of the URL, scope hint
  pc,                        \* the pending step of the promise chain
  index,                     \* loadArticle: index of the next slug candidate
  slugValue,                 \* loadArticleForSlug: the candidate being resolved
  attemptedArchive,          \* part_008: archive shard keys already tried
  queue, cursor,             \* the months / manifest shards being walked, position
  hotResult,                 \* the hot hit awaiting its archive record
  outcome,                   \* what loadArticle settles with
  HOT_SHARD_CACHE, ARCHIVE_SHARD_CACHE,
  ARCHIVE_SUMMARY_PROMISE, ARCHIVE_MANIFEST_PROMISE, HOT_MANIFEST_PROMISE,
  log,                       \* every request for a file, in order: see Probe
  failures,                  \* requests that failed so far
  page,                      \* what the article container shows
  published,                 \* the canonical URL written to the document head
  mergeArgs,                 \* mergeArchiveWithHot called by itself: its arguments
  mergeResult,               \* ... and the record it returned
  pending,                   \* shard requests in flight: their promise is unsettled
  callers,                   \* the components of the page asking for shards
  indexMonths,               \* ensureIndexes: the months whose search index it asked for
  lists,                     \* ... what each of these requests resolved with
  arrival,                   \* ... the requests that have settled, in the order they did
  combined,                  \* ... the entries ensureIndexes resolves with
  batch,                     \* the posts a listing hands to its Deduper, in order
  deduperSeen,               \* Deduper: the keys of _seen
  addResults,                \* ... what add returned for each post so far
  hotManifestFile,           \* check-critical-indexes: data/hot/manifest.json as parsed
  disk,                      \* ... what fs.statSync finds at each path
  indexPaths,                \* ... the paths collected for verification
  missingFiles, emptyFiles,  \* ... the paths reported as missing, as empty
  exitCode,                  \* ... the exit code of the run
  sources,                   \* the listings: what the data loader answers for each file
  views,                     \* ... the step each listing script is at and what it shows
  hotTier,                   \* rotation: the items of the hot shard of each scope
  archiveTier,               \* ... the items of the archive shard of each (scope, year, month)
  indexFiles,                \* ... the manifests and the Summary as last rebuilt
  snapshots,                 \* ... both tiers at the start and after each pass
  shardFile,                 \* a shard fetch on its own: the payload the request is answered with
  handed,                    \* ... the items the fetch hands to its consumers
  urlParams,                 \* category.js: the cat and sub parameters of the page address
  taxonomyFile,              \* ... data/taxonomy.json as parsed
  CATEGORY_PARENT_LOOKUP,    \* ... the mapping from a category to its scope
  listingScope,              \* ... the scope loadHotCategory works with
  locationSearch,            \* data-loader.js: the query parameters of the page address
  sectionData,               \* ... the data attributes of the feed section
  subcategoryRead,           \* ... what readSubcategorySlug returned
  categoryState,             \* the category feed of data-loader.js: slug, queue, isLoading, deduper, initialised
  loadMoreButton,            \* ... the load-more button: disabled, busy
  statusEl,                  \* ... the text of the status line
  postList,                  \* ... the posts rendered, and whether an empty-state line follows them
  inflight,                  \* ... the archive batch requests that are out
  summaryWanted,             \* ... handleCategoryPayload waits for the archive summary
  clicks,                    \* ... the clicks on the button so far, and those that came during a load
  feedLog,                   \* ... the queue as set, the entries taken, the requests and how they settled
  categorySite,              \* the category page of category.js: the category asked for, the page parameter, the shards and the summaries of the site
  archiveWalk,               \* ... the closure of loadHotCategory and loadAdditionalArchivePosts
  categoryPage,              \* ... what renderCategoryDataset has put on the page
  shardLog                   \* ... the archive months asked for and whether they were answered

vars ==
  <<resolver, world, slugCandidates, scopeHint, pc, index, slugValue, attemptedArchive,
    queue, cursor, hotResult, outcome, HOT_SHARD_CACHE, ARCHIVE_SHARD_CACHE,
    ARCHIVE_SUMMARY_PROMISE, ARCHIVE_MANIFEST_PROMISE, HOT_MANIFEST_PROMISE,
    log, failures, page, published, mergeArgs, mergeResult, pending, callers,
    indexMonths, lists, arrival, combined, batch, deduperSeen, addResults,
    hotManifestFile, disk, indexPaths, missingFiles, emptyFiles, exitCode, sources, views,
    hotTier, archiveTier, indexFiles, snapshots, shardFile, handed,
    urlParams, taxonomyFile, CATEGORY_PARENT_LOOKUP, listingScope,
    locationSearch, sectionData, subcategoryRead,
    categoryState, loadMoreButton, statusEl, postList, inflight, summaryWanted, clicks, feedLog,
    categorySite, archiveWalk, categoryPage, shardLog>>

\* a promise that has not been created yet
UNSET == [unset |-> TRUE]
\* a rejected promise travelling down a chain
REJECTED == [rejected |-> TRUE]
\* a cache object without entries
NoCache == [k \in {} |-> << >>]
CachePut(cache, key, value) ==
  [k \in DOMAIN cache \cup {key} |-> IF k = key THEN value ELSE cache[k]]

\* ------------------------------------------------------------------ data tree
Scope(parent, child) == [parent |-> parent, child |-> child]
SC_EU == Scope(NEWS, EU)
SC_NEWS == Scope(NEWS, INDEX)
SC_ROOT == Scope(INDEX, INDEX)
HotScopes == {SC_EU, SC_NEWS, SC_ROOT}
ArchiveScopes == {SC_EU, SC_ROOT}
ArchiveYear == 2024

\* the file a request names
Res(tier, parent, child, year, month) ==
  [tier |-> tier, parent |-> parent, child |-> child, year |-> year, month |-> month,
   slug |-> EMPTY]
SummaryRes == Res("summary", EMPTY, EMPTY, 0, 0)
ArchiveManifestRes == Res("archive-manifest", EMPTY, EMPTY, 0, 0)
HotManifestRes == Res("hot-manifest", EMPTY, EMPTY, 0, 0)
LegacyPostsRes == Res("legacy", EMPTY, EMPTY, 0, 0)
LegacyLookupRes == Res("legacy-index", EMPTY, EMPTY, 0, 0)

\* the n-th month of the archive tree, counted from its first month
YearOf(n) == ArchiveYear + ((n - 1) \div 12)
MonthOf(n) == ((n - 1) % 12) + 1
MonthIndex(year, month) == (year - ArchiveYear) * 12 + month

SLUG_A == <<"a">>
SLUG_B == <<"b">>
CAT_EU == <<"n", "e", "w", "s", "/", "e", "u">>
CAT_ASIA == <<"n", "e", "w", "s", "/", "a", "s", "i", "a">>
FULL_TEXT == <<"f", "u", "l", "l">>
OLD_TEXT == <<"o", "l", "d">>
OTHER_ORIGIN == "https://aventuroo.com"

\* the item every shard holds besides the one looked for
Distractor ==
  [slug |-> SLUG_B, title |-> <<"B">>, category_slug |-> CAT_EU, date |-> 202412,
   canonical |-> NoUrl, body |-> EMPTY]

\* the canonical text an item may carry
CanonKinds == {"none", "blank", "url"}
CanonOf(kind, n) ==
  IF kind = "blank" THEN BlankUrl
  ELSE IF kind = "url"
       THEN MkUrl(OTHER_ORIGIN,
                  <<NEWS, EU, padNumber(YearOf(n), 4), padNumber(MonthOf(n), 2), SLUG_A>>, TRUE)
  ELSE NoUrl

\* hot stubs: dated, undated with a foreign subcategory, or with canonical text
HotKinds == {"dated", "foreign", "blank", "url"}
HotStub(kind) ==
  [slug |-> SLUG_A, title |-> <<"A">>,
   category_slug |-> IF kind = "foreign" THEN CAT_ASIA ELSE CAT_EU,
   date |-> IF kind = "dated" THEN ArchiveYear * 100 + 1 ELSE 0,
   canonical |-> CanonOf(kind, 1), body |-> EMPTY]

ArchiveRecord(kind, n) ==
  [slug |-> SLUG_A, title |-> <<"A">>, category_slug |-> CAT_EU,
   date |-> YearOf(n) * 100 + MonthOf(n), canonical |-> CanonOf(kind, n),
   body |-> FULL_TEXT]

\* the article a canonical document holds: the slug as the editor typed it
CanonicalArticle ==
  [slug |-> <<"A">>, title |-> <<"A">>, category_slug |-> CAT_EU,
   date |-> ArchiveYear * 100 + 1, canonical |-> NoUrl, body |-> FULL_TEXT]

\* an entry of the legacy lookup index
LegacyEntry ==
  [slug |-> SLUG_A, title |-> <<"A">>, category_slug |-> CAT_EU,
   date |-> ArchiveYear * 100 + 1, canonical |-> CanonOf("url", 1)]

LegacyRecord ==
  [slug |-> SLUG_A, title |-> <<"A">>, category_slug |-> CAT_EU, date |-> 0,
   canonical |-> NoUrl, body |-> OLD_TEXT]

NOWHERE == [none |-> TRUE]
HotPlace(scope, kind) == [scope |-> scope, kind |-> kind]
ArchivePlace(scope, month, kind) == [scope |-> scope, month |-> month, kind |-> kind]

\* where the item looked for may live: in at most one hot shard and in at most
\* one archive month
HotPlaces ==
  {HotPlace(SC_EU, k) : k \in HotKinds}
    \cup {HotPlace(SC_NEWS, "dated"), HotPlace(SC_ROOT, "url")}
ArchivePlaces ==
  {ArchivePlace(s, m, "none") : s \in ArchiveScopes, m \in 1..MaxMonths}
    \cup {ArchivePlace(s, 1, "url") : s \in ArchiveScopes}

\* a data tree: where the item is, how many months the archive tree has
\* and whether the Summary lists them, what the canonical document of the item
\* holds, whether posts.json and the legacy lookup index know the item
World(hot, archive, months, listed, doc, legacy, lookup) ==
  [hot |-> hot, archive |-> archive, months |-> months, listed |-> listed,
   doc |-> doc, legacy |-> legacy, lookup |-> lookup]
DocKinds == {"missing", "article", "items"}

RECURSIVE monthsDown(_)
\* the month list of a Summary child: most recent first
monthsDown(n) ==
  IF n = 0 THEN << >>
  ELSE <<[year |-> YearOf(n), month |-> MonthOf(n)]>> \o monthsDown(n - 1)

\* the entries of the search index of a month: as many as the month's number
IndexEntries(n) ==
  [k \in 1..n |-> [title |-> <<"B">>, date |-> YearOf(n) * 100 + MonthOf(n), rank |-> k]]

RECURSIVE shardsUp(_, _)
shardsUp(scope, n) ==
  IF n = 0 THEN << >>
  ELSE Append(shardsUp(scope, n - 1),
              [parent |-> scope.parent, child |-> scope.child,
               year |-> YearOf(n), month |-> MonthOf(n)])

\* what the file behind a request holds; NULL: there is no such file
FileOf(w, res) ==
  LET scope == Scope(res.parent, res.child)
  IN CASE res.tier = "hot" /\ scope \in HotScopes ->
            [items |-> IF w.hot # NOWHERE /\ w.hot.scope = scope
                       THEN <<HotStub(w.hot.kind), Distractor>> ELSE <<Distractor>>]
       [] res.tier = "archive" /\ scope \in ArchiveScopes /\ res.month \in 1..12
            /\ MonthIndex(res.year, res.month) \in 1..w.months ->
            [items |-> IF w.archive # NOWHERE /\ w.archive.scope = scope
                            /\ w.archive.month = MonthIndex(res.year, res.month)
                       THEN <<ArchiveRecord(w.archive.kind, w.archive.month), Distractor>>
                       ELSE <<Distractor>>]
       [] res.tier = "search" /\ scope \in ArchiveScopes /\ res.month \in 1..12
            /\ MonthIndex(res.year, res.month) \in 1..w.months ->
            [entries |-> IndexEntries(MonthIndex(res.year, res.month))]
       [] res.tier = "summary" ->
            [parents |->
               IF w.listed
               THEN <<[parent |-> NEWS,
                       children |-> <<[child |-> EU, months |-> monthsDown(w.months)]>>],
                      [parent |-> INDEX,
                       children |-> <<[child |-> INDEX, months |-> monthsDown(w.months)]>>]>>
               ELSE << >>]
       [] res.tier = "archive-manifest" ->
            [shards |-> shardsUp(SC_ROOT, w.months) \o shardsUp(SC_EU, w.months)]
       [] res.tier = "hot-manifest" ->
            [shards |-> <<SC_ROOT, SC_NEWS, SC_EU>>]
       [] res.tier = "legacy" ->
            [array |-> IF w.legacy THEN <<Distractor, LegacyRecord>> ELSE <<Distractor>>]
       [] res.tier = "legacy-index" ->
            [items |-> IF w.lookup THEN <<LegacyEntry>> ELSE << >>]
       [] res.tier = "canonical" /\ w.doc = "article"
            /\ res = [Res("canonical", NEWS, EU, ArchiveYear, 1) EXCEPT !.slug = SLUG_A] ->
            [post |-> CanonicalArticle, items |-> <<Distractor>>]
       [] res.tier = "canonical" /\ w.doc = "items"
            /\ res = [Res("canonical", NEWS, EU, ArchiveYear, 1) EXCEPT !.slug = SLUG_A] ->
            [items |-> <<Distractor>>]
       [] OTHER -> NULL

\* ------------------------------------------------------------------ requests
\* fetchSequential hands the candidate URLs of one file to the data loader of
\* the page: the promise resolves with the payload of the file, or rejects
\* (NULL here) when no candidate answers or the data loader is not available
fetchSequential(res, ok) == IF ok THEN FileOf(world, res) ELSE NULL

\* a request may fail while the failure budget lasts
MayAnswer(ok) == ok \/ failures < MaxFail

buildHotShardCandidates(parent, child) ==
  Res("hot", OrIndex(slugify(parent)), OrIndex(slugify(child)), 0, 0)

buildArchiveMonthCandidates(parent, child, year, month) ==
  Res("archive", OrIndex(slugify(parent)), OrIndex(slugify(child)), year, month)

HotScopeKey(parent, child) == <<OrIndex(parent), OrIndex(child)>>
ArchiveScopeKey(parent, child, year, month) ==
  <<OrIndex(parent), OrIndex(child), padNumber(year, 4) \o padNumber(month, 2)>>

\* a then-handler that sorts the items and keeps every one of them
shardItemsSorted(payload) == sortPostsByDate(normalizePostsPayload(payload))
\* the then-handler of a shard request
shardItems(payload) == dedupePosts(sortPostsByDate(normalizePostsPayload(payload)))

\* a shard promise that resolved: it stays in the cache
shardKept(cache, scopeKey, res, items) ==
  [issued |-> TRUE, rejected |-> FALSE, res |-> res, items |-> items,
   cache |-> CachePut(cache, scopeKey, items)]

\* a memoized shard request, given the answer a new request would get:
\* whether a request goes out, whether the promise rejects (its cache entry
\* is deleted again), the items it resolves with and the cache left behind
shardAnswer(cache, scopeKey, res, payload) ==
  IF scopeKey \in DOMAIN cache
  THEN [issued |-> FALSE, rejected |-> FALSE, res |-> res, items |-> cache[scopeKey],
        cache |-> cache]
  ELSE IF IsNull(payload)
  THEN [issued |-> TRUE, rejected |-> TRUE, res |-> res, items |-> << >>, cache |-> cache]
  ELSE shardKept(cache, scopeKey, res, shardItems(payload))

fetchHotShard(parent, child, ok) ==
  shardAnswer(HOT_SHARD_CACHE, HotScopeKey(parent, child),
              buildHotShardCandidates(parent, child),
              fetchSequential(buildHotShardCandidates(parent, child), ok))

fetchArchiveShard(parent, child, year, month, ok) ==
  shardAnswer(ARCHIVE_SHARD_CACHE, ArchiveScopeKey(parent, child, year, month),
              buildArchiveMonthCandidates(parent, child, year, month),
              fetchSequential(buildArchiveMonthCandidates(parent, child, year, month), ok))

\* what the .catch of a memoized index request resolves with
indexLoadError == NULL

\* a memoized index request (Summary or Manifest), given the answer a new
\* request would get: created once, a failure is caught and kept as null
indexAnswer(promise, res, payload) ==
  IF promise # UNSET
  THEN [issued |-> FALSE, rejected |-> FALSE, res |-> res, value |-> promise.value,
        promise |-> promise]
  ELSE IF IsNull(payload)
  THEN [issued |-> TRUE, rejected |-> TRUE, res |-> res, value |-> indexLoadError,
        promise |-> [value |-> indexLoadError]]
  ELSE [issued |-> TRUE, rejected |-> FALSE, res |-> res, value |-> payload,
        promise |-> [value |-> payload]]

getHotManifest(ok) ==
  indexAnswer(HOT_MANIFEST_PROMISE, HotManifestRes, fetchSequential(HotManifestRes, ok))
getArchiveSummary(ok) ==
  indexAnswer(ARCHIVE_SUMMARY_PROMISE, SummaryRes, fetchSequential(SummaryRes, ok))
getArchiveManifest(ok) ==
  indexAnswer(ARCHIVE_MANIFEST_PROMISE, ArchiveManifestRes,
              fetchSequential(ArchiveManifestRes, ok))

\* the log and the failure count after a request that may not have gone out
\* a request for a file as the log keeps it: the slug candidate it was made
\* for, the function that made it, the file, whether a fetchSequential call
\* went out (FALSE: a memoized promise answered) and whether that call failed
Probe(res, issued, rejected) ==
  [call |-> index, by |-> pc, res |-> res, issued |-> issued,
   failed |-> issued /\ rejected]
Logged(issued, rejected, res) ==
  IF IsNull(res) THEN log ELSE Append(log, Probe(res, issued, rejected))
Failed(issued, rejected) == IF issued /\ rejected THEN failures + 1 ELSE failures
\* a request served from memory has one outcome only
OneOutcome(issued, ok) == issued \/ ok

\* the bookkeeping of one request f whose answer was ok or not
Requested(f, ok) ==
  /\ MayAnswer(ok)
  /\ OneOutcome(f.issued, ok)
  /\ log' = Logged(f.issued, f.rejected, f.res)
  /\ failures' = Failed(f.issued, f.rejected)

findParentSummary(summary, parent) ==
  IF IsNull(summary) THEN NULL
  ELSE FirstAt(Field(summary, "parents"),
               {i \in 1..Len(Field(summary, "parents")) :
                  slugify(Field(summary.parents[i], "parent")) = slugify(parent)})

\* the loop of findChildSummary over the children of the parent entry
childOfParent(parentEntry, normalized) ==
  IF IsNull(parentEntry) THEN NULL
  ELSE FirstAt(Field(parentEntry, "children"),
               {i \in 1..Len(Field(parentEntry, "children")) :
                  (IF Field(parentEntry.children[i], "child") = INDEX THEN INDEX
                   ELSE slugify(Field(parentEntry.children[i], "child"))) = normalized})

findChildSummary(summary, parent, child) ==
  childOfParent(findParentSummary(summary, parent),
                IF child = INDEX \/ child = EMPTY THEN INDEX ELSE slugify(child))

\* result objects of the tiers
ArchiveResult(post, parent, child, year, month) ==
  [post |-> post, source |-> "archive", scope |-> NULL,
   context |-> [parent |-> parent, child |-> child, year |-> year, month |-> month]]
HotResult(post, scope) ==
  [post |-> post, source |-> "hot", scope |-> scope, context |-> NULL]
LegacyResult(post) ==
  [post |-> post, source |-> "legacy", scope |-> NULL, context |-> NULL]

\* ------------------------------------------------------------------ request
RAW_A == <<"A">>
RAW_C == <<"C">>
RAW_BANG == <<"!">>
\* extractSlugHints + main: the distinct usable hints, or the raw query slug
\* when no hint is usable
SlugRequests == {<<RAW_A>>, <<RAW_C, RAW_A>>, <<RAW_BANG>>}
\* resolveScopeHint: normalised parent and child, "index" where missing
ScopeHints == {SC_EU, SC_ROOT}

\* the trees the Summary/Manifest resolver (part_008) is run against
\* (an item that is in a hot shard and in the archive is in the month shard
\* its stub points at)
Worlds8 ==
  {w \in {World(hot, archive, MaxMonths, listed, "missing", legacy, FALSE) :
            hot \in HotPlaces \cup {NOWHERE}, archive \in ArchivePlaces \cup {NOWHERE},
            listed \in BOOLEAN, legacy \in BOOLEAN} :
     \/ w.hot = NOWHERE
     \/ w.archive = NOWHERE
     \/ w.archive.scope = SC_EU /\ w.archive.month = 1}
\* the trees the canonical-document resolver (part_009) is run against
Worlds9 ==
  {World(hot, archive, MaxMonths, archive # NOWHERE, doc, legacy, lookup) :
     hot \in HotPlaces \cup {NOWHERE}, archive \in {NOWHERE, ArchivePlace(SC_EU, 1, "none")},
     doc \in DocKinds, legacy \in BOOLEAN, lookup \in BOOLEAN}

\* the page as the script finds it: nothing fetched, nothing cached
Unloaded ==
  /\ index = 0
  /\ slugValue = EMPTY
  /\ attemptedArchive = {}
  /\ queue = << >>
  /\ cursor = 0
  /\ hotResult = NULL
  /\ outcome = NULL
  /\ HOT_SHARD_CACHE = NoCache
  /\ ARCHIVE_SHARD_CACHE = NoCache
  /\ ARCHIVE_SUMMARY_PROMISE = UNSET
  /\ ARCHIVE_MANIFEST_PROMISE = UNSET
  /\ HOT_MANIFEST_PROMISE = UNSET
  /\ log = << >>
  /\ failures = 0
  /\ page = "loading"
  /\ published = NoUrl

\* no component is asking for shards
NoCallers == pending = {} /\ callers = << >>
\* no search index is being loaded
NoIndexes == indexMonths = << >> /\ lists = << >> /\ arrival = << >> /\ combined = << >>
\* the verification script is not running
NoVerify ==
  /\ hotManifestFile = NULL
  /\ disk = << >>
  /\ indexPaths = << >>
  /\ missingFiles = << >>
  /\ emptyFiles = << >>
  /\ exitCode = 0
\* no rotation is running
NoRotation ==
  /\ hotTier = << >>
  /\ archiveTier = << >>
  /\ indexFiles = NULL
  /\ snapshots = << >>
\* no listing page is open
NoListing == sources = NULL /\ views = << >>
\* no shard is fetched on its own
NoFetch == shardFile = NULL /\ handed = NULL
\* no category page is resolving its scope
NoScope ==
  /\ urlParams = NULL
  /\ taxonomyFile = NULL
  /\ CATEGORY_PARENT_LOOKUP = NoCache
  /\ listingScope = NULL
\* no feed is reading its subcategory
NoSubcategory ==
  /\ locationSearch = NULL
  /\ sectionData = NULL
  /\ subcategoryRead = NULL
\* no category feed is open
NoFeed ==
  /\ categoryState = NULL
  /\ loadMoreButton = NULL
  /\ statusEl = ""
  /\ postList = << >>
  /\ inflight = {}
  /\ summaryWanted = FALSE
  /\ clicks = [total |-> 0, loading |-> 0]
  /\ feedLog = << >>
\* no category page is open
NoCategory ==
  /\ categorySite = NULL
  /\ archiveWalk = NULL
  /\ categoryPage = NULL
  /\ shardLog = << >>
\* none of the listing pages and helpers is at work
NoOtherReaders == NoFetch /\ NoScope /\ NoSubcategory /\ NoFeed /\ NoCategory
\* no listing is rendering posts
NoBatch == batch = << >> /\ deduperSeen = {} /\ addResults = << >>

Fresh ==
  /\ NoOtherReaders
  /\ slugCandidates \in SlugRequests
  /\ scopeHint \in ScopeHints
  /\ Len(slugCandidates) > 1 => scopeHint = SC_EU
  /\ pc = "loadArticle"
  /\ Unloaded
  /\ mergeArgs = NULL
  /\ mergeResult = NULL
  /\ NoCallers
  /\ NoIndexes
  /\ NoVerify
  /\ NoListing
  /\ NoRotation
  /\ NoBatch

Init ==
  /\ \/ resolver = "part_008" /\ world \in Worlds8
     \/ resolver = "part_009" /\ world \in Worlds9
  /\ Fresh

requestVars == <<resolver, world, slugCandidates, scopeHint>>
indexVars == <<ARCHIVE_SUMMARY_PROMISE, ARCHIVE_MANIFEST_PROMISE, HOT_MANIFEST_PROMISE>>
walkVars == <<queue, cursor>>
viewVars == <<page, published>>
mergeVars == <<mergeArgs, mergeResult>>
shardVars == <<pending, callers>>
\* what the resolvers leave alone
gatherVars == <<indexMonths, lists, arrival, combined>>
dedupVars == <<batch, deduperSeen, addResults>>
verifyVars == <<hotManifestFile, disk, indexPaths, missingFiles, emptyFiles, exitCode>>
\* the variables of the build scripts
listingVars == <<sources, views>>
rotationVars == <<hotTier, archiveTier, indexFiles, snapshots>>
fetchVars == <<shardFile, handed>>
\* the variables of the listing pages and their helpers
scopeVars == <<urlParams, taxonomyFile, CATEGORY_PARENT_LOOKUP, listingScope>>
subcategoryVars == <<locationSearch, sectionData, subcategoryRead>>
feedVars == <<categoryState, loadMoreButton, statusEl, postList, inflight, summaryWanted, clicks, feedLog>>
categoryVars == <<categorySite, archiveWalk, categoryPage, shardLog>>
readerVars == <<fetchVars, scopeVars, subcategoryVars, feedVars, categoryVars>>
\* the readers beside each of them
fetchAside == <<scopeVars, subcategoryVars, feedVars, categoryVars>>
scopeAside == <<fetchVars, subcategoryVars, feedVars, categoryVars>>
subcategoryAside == <<fetchVars, scopeVars, feedVars, categoryVars>>
feedAside == <<fetchVars, scopeVars, subcategoryVars, categoryVars>>
categoryAside == <<fetchVars, scopeVars, subcategoryVars, feedVars>>
restVars == <<verifyVars, listingVars, rotationVars, readerVars>>
clientVars == <<mergeVars, shardVars, gatherVars, dedupVars>>
asideVars == <<clientVars, restVars>>
\* the variables of the resolvers but their position
resolverVars ==
  <<requestVars, indexVars, walkVars, viewVars, index, slugValue, attemptedArchive, hotResult,
    outcome, HOT_SHARD_CACHE, ARCHIVE_SHARD_CACHE, log, failures>>

\* ------------------------------------------------------------------ resolvers
\* loadArticleForSlug calling loadHotPost first, whatever the script
FirstTierHot == "loadHotPost"
\* the first call loadArticleForSlug makes
FirstTier == IF resolver = "part_008" THEN "loadArchivePost" ELSE "loadHotPost"

\* loadArticle.next + the entry of loadArticleForSlug (the same in both
\* scripts): take the next slug candidate; part_008 starts with the archive,
\* part_009 with the hot shard
loadArticle ==
  /\ pc = "loadArticle"
  /\ IF index >= Len(slugCandidates)
     THEN /\ outcome' = NULL
          /\ pc' = "main"
          /\ UNCHANGED <<index, slugValue, attemptedArchive>>
     ELSE /\ index' = index + 1
          /\ slugValue' = slugCandidates[index + 1]
          /\ attemptedArchive' = {}
          /\ outcome' = outcome
          /\ pc' = IF slugCandidates[index + 1] = EMPTY THEN "loadArticle" ELSE FirstTier
  /\ UNCHANGED <<requestVars, asideVars, indexVars, walkVars, viewVars, hotResult,
                 HOT_SHARD_CACHE, ARCHIVE_SHARD_CACHE, log, failures>>

\* the months of a Summary child cut to the first MAX_MONTHS entries
monthsWithinLookback(childEntry) ==
  IF IsNull(childEntry) THEN << >>
  ELSE SubSeq(Field(childEntry, "months"), 1,
              IF Len(Field(childEntry, "months")) < MAX_MONTHS
              THEN Len(Field(childEntry, "months")) ELSE MAX_MONTHS)
\* the months the Summary lists for the scope
monthsOfChild(childEntry) == IF IsNull(childEntry) THEN << >> ELSE Field(childEntry, "months")
\* the months of the scope walked from the oldest listed month on
RECURSIVE reversed(_)
reversed(list) == IF list = << >> THEN << >> ELSE Append(reversed(Tail(list)), Head(list))
monthsOldestFirst(summary, scope) ==
  IF IsNull(summary) THEN << >>
  ELSE reversed(monthsOfChild(findChildSummary(summary, scope.parent, scope.child)))
monthsOfScope(summary, scope) ==
  IF IsNull(summary) THEN << >>
  ELSE monthsOfChild(findChildSummary(summary, scope.parent, scope.child))

\* the then-handler of loadArchivePost, given the months found
summaryRead(f, months, ok) ==
  /\ Requested(f, ok)
  /\ ARCHIVE_SUMMARY_PROMISE' = f.promise
  /\ queue' = months
  /\ cursor' = 0
  /\ pc' = IF months # << >> THEN "searchArchiveByMonths" ELSE "searchArchiveViaManifest"

summaryAnswered(f, ok) == summaryRead(f, monthsOfScope(f.value, scopeHint), ok)

\* loadArchivePost (part_008): read the Summary and pick the months listed
\* for the scope
loadArchivePost ==
  /\ pc = "loadArchivePost"
  /\ \E ok \in BOOLEAN : summaryAnswered(getArchiveSummary(ok), ok)
  /\ UNCHANGED <<requestVars, asideVars, viewVars, index, slugValue, attemptedArchive, hotResult,
                 outcome, HOT_SHARD_CACHE, ARCHIVE_SHARD_CACHE,
                 ARCHIVE_MANIFEST_PROMISE, HOT_MANIFEST_PROMISE>>

\* the handlers of an archive shard request: a hit settles with the archive
\* record; a miss or a failed request leaves missOutcome and goes on at missPc
archiveShardRead(f, post, key, parent, child, year, month, ok, missOutcome, missPc) ==
  /\ Requested(f, ok)
  /\ attemptedArchive' = attemptedArchive \cup {key}
  /\ ARCHIVE_SHARD_CACHE' = f.cache
  /\ IF ~f.rejected /\ ~IsNull(post)
     THEN outcome' = ArchiveResult(post, parent, child, year, month) /\ pc' = "main"
     ELSE outcome' = missOutcome /\ pc' = missPc

archiveShardAnswered(f, slug, key, parent, child, year, month, ok, missOutcome, missPc) ==
  archiveShardRead(f, findPostBySlug(f.items, slug), key, parent, child, year, month, ok,
                   missOutcome, missPc)

\* the body of next() in both archive walks, given the shard key: skip an
\* entry without year or month or one already attempted, otherwise fetch the
\* shard and look the slug up
archiveShardKeyed(key, parent, child, year, month) ==
  IF year = 0 \/ month = 0 \/ key \in attemptedArchive
  THEN UNCHANGED <<attemptedArchive, ARCHIVE_SHARD_CACHE, log, failures, outcome, pc>>
  ELSE \E ok \in BOOLEAN :
         archiveShardAnswered(fetchArchiveShard(parent, child, year, month, ok), slugValue,
                              key, parent, child, year, month, ok, outcome, pc)

ArchiveShardStep(parent, child, year, month) ==
  archiveShardKeyed(ArchiveScopeKey(parent, child, year, month), parent, child, year, month)

\* searchArchiveByMonths.next: one month of the Summary list, in list order
searchArchiveByMonths ==
  /\ pc = "searchArchiveByMonths"
  /\ IF cursor >= Len(queue)
     THEN /\ pc' = "searchArchiveViaManifest"
          /\ UNCHANGED <<cursor, attemptedArchive, ARCHIVE_SHARD_CACHE, log, failures, outcome>>
     ELSE /\ cursor' = cursor + 1
          /\ ArchiveShardStep(OrIndex(scopeHint.parent), OrIndex(scopeHint.child),
                              Num(queue[cursor + 1], "year"), Num(queue[cursor + 1], "month"))
  /\ UNCHANGED <<requestVars, asideVars, indexVars, viewVars, index, slugValue, hotResult,
                 queue, HOT_SHARD_CACHE>>

\* manifest.shards turned round, so that the walk starts at the first entry
shardsFirstEntryLast(manifest) ==
  IF IsNull(manifest) THEN << >> ELSE reversed(Field(manifest, "shards"))
\* manifest.shards, empty when the manifest could not be read
shardsOf(manifest) == IF IsNull(manifest) THEN << >> ELSE Field(manifest, "shards")

archiveManifestRead(f, shards, ok) ==
  /\ Requested(f, ok)
  /\ ARCHIVE_MANIFEST_PROMISE' = f.promise
  /\ queue' = shards
  /\ cursor' = Len(shards) - 1
  /\ pc' = IF shards # << >> THEN "archiveManifestNext" ELSE "loadHotPost"

archiveManifestAnswered(f, ok) == archiveManifestRead(f, shardsOf(f.value), ok)

\* searchArchiveViaManifest: read the Manifest, start at its last shard
searchArchiveViaManifest ==
  /\ pc = "searchArchiveViaManifest"
  /\ \E ok \in BOOLEAN : archiveManifestAnswered(getArchiveManifest(ok), ok)
  /\ UNCHANGED <<requestVars, asideVars, viewVars, index, slugValue, attemptedArchive, hotResult,
                 outcome, HOT_SHARD_CACHE, ARCHIVE_SHARD_CACHE,
                 ARCHIVE_SUMMARY_PROMISE, HOT_MANIFEST_PROMISE>>

\* searchArchiveViaManifest.next: one Manifest shard, from the last entry back
archiveManifestNext ==
  /\ pc = "archiveManifestNext"
  /\ IF cursor < 0
     THEN /\ pc' = "loadHotPost"
          /\ UNCHANGED <<cursor, attemptedArchive, ARCHIVE_SHARD_CACHE, log, failures, outcome>>
     ELSE /\ cursor' = cursor - 1
          /\ ArchiveShardStep(OrIndex(Field(queue[cursor + 1], "parent")),
                              OrIndex(Field(queue[cursor + 1], "child")),
                              Num(queue[cursor + 1], "year"), Num(queue[cursor + 1], "month"))
  /\ UNCHANGED <<requestVars, asideVars, indexVars, viewVars, index, slugValue, hotResult,
                 queue, HOT_SHARD_CACHE>>

\* loadArticleForSlug resolving with null as soon as the hot tier misses
AfterHotMissNextSlug == "loadArticle"
\* the handler of a hot miss in loadArticleForSlug: loadLegacyPost
AfterHotMiss == "loadLegacyPost"

\* the handler of a hot hit: ensureArchiveFromHot in part_008,
\* loadCanonicalFromHot in part_009
AfterHotHit ==
  IF resolver = "part_008" THEN "ensureArchiveFromHot" ELSE "loadCanonicalFromHot"

\* the result of a lookup among the filtered items of a hot shard
hotHit(post, scope) == IF IsNull(post) THEN NULL ELSE HotResult(post, scope)

\* the then-handler of searchHotShard and of searchHotViaManifest.next: the
\* shard's items filtered by its scope, the slug looked up among them
hotShardLookup(items, scope, slug) ==
  hotHit(findPostBySlug(filterPostsByScope(items, scope), slug), scope)

\* searchHotShard without its catch handler: the rejection travels on
searchHotShardUncaught(f, scope, slug) ==
  IF f.rejected THEN REJECTED ELSE hotShardLookup(f.items, scope, slug)
\* searchHotShard: a rejected request is caught and reads as a miss
searchHotShard(f, scope, slug) ==
  IF f.rejected THEN NULL ELSE hotShardLookup(f.items, scope, slug)

\* what a hot shard request leaves, found being what the lookup gave
hotShardRead(f, found, ok, missPc) ==
  /\ Requested(f, ok)
  /\ HOT_SHARD_CACHE' = f.cache
  /\ IF found = REJECTED
     THEN outcome' = REJECTED /\ hotResult' = hotResult /\ pc' = "main"
     ELSE IF IsNull(found)
     THEN UNCHANGED <<outcome, hotResult>> /\ pc' = missPc
     ELSE outcome' = outcome /\ hotResult' = found /\ pc' = AfterHotHit

hotShardAnswered(f, ok) ==
  hotShardRead(f, searchHotShard(f, scopeHint, slugValue), ok, "searchHotViaManifest")

\* loadHotPost (the same in both scripts): the shard of the hinted scope
\* first; a hit goes on to the archive record of the stub
loadHotPost ==
  /\ pc = "loadHotPost"
  /\ \E ok \in BOOLEAN :
       hotShardAnswered(fetchHotShard(scopeHint.parent, scopeHint.child, ok), ok)
  /\ UNCHANGED <<requestVars, asideVars, indexVars, walkVars, viewVars, index, slugValue,
                 attemptedArchive, ARCHIVE_SHARD_CACHE>>

\* the then-handler of searchHotViaManifest, given the shards of the manifest
hotManifestReadTo(f, shards, ok) ==
  /\ Requested(f, ok)
  /\ HOT_MANIFEST_PROMISE' = f.promise
  /\ queue' = shards
  /\ cursor' = Len(shards) - 1
  /\ pc' = IF shards # << >> THEN "hotManifestNext" ELSE AfterHotMiss

\* searchHotViaManifest giving up without walking the shards
hotManifestUnread(f, shards, ok) == hotManifestReadTo(f, << >>, ok)
hotManifestRead(f, shards, ok) == hotManifestReadTo(f, shards, ok)

hotManifestAnswered(f, ok) == hotManifestRead(f, shardsOf(f.value), ok)

\* searchHotViaManifest: read the hot manifest, start at its last shard
searchHotViaManifest ==
  /\ pc = "searchHotViaManifest"
  /\ \E ok \in BOOLEAN : hotManifestAnswered(getHotManifest(ok), ok)
  /\ UNCHANGED <<requestVars, asideVars, viewVars, index, slugValue, attemptedArchive, hotResult,
                 outcome, HOT_SHARD_CACHE, ARCHIVE_SHARD_CACHE,
                 ARCHIVE_SUMMARY_PROMISE, ARCHIVE_MANIFEST_PROMISE>>

\* the handlers of searchHotViaManifest.next for the shard of one scope: a
\* failed request moves on to the entry before it
manifestShardAnswered(f, scope, ok) ==
  hotShardRead(f, IF f.rejected THEN NULL ELSE hotShardLookup(f.items, scope, slugValue),
               ok, pc)

manifestShardStep(scope) ==
  \E ok \in BOOLEAN :
    manifestShardAnswered(fetchHotShard(scope.parent, scope.child, ok), scope, ok)

\* searchHotViaManifest.next: one shard of the hot manifest, from the last
\* entry back
hotManifestNext ==
  /\ pc = "hotManifestNext"
  /\ IF cursor < 0
     THEN /\ pc' = AfterHotMiss
          /\ UNCHANGED <<cursor, hotResult, outcome, HOT_SHARD_CACHE, log, failures>>
     ELSE /\ cursor' = cursor - 1
          /\ manifestShardStep(Scope(OrIndex(Field(queue[cursor + 1], "parent")),
                                     OrIndex(Field(queue[cursor + 1], "child"))))
  /\ UNCHANGED <<requestVars, asideVars, indexVars, viewVars, index, slugValue, attemptedArchive,
                 queue, ARCHIVE_SHARD_CACHE>>

\* the body of ensureArchiveFromHot, given the shard the stub's context names
archiveOfStub(key, parent, child, year, month) ==
  IF year = 0 \/ month = 0 \/ key \in attemptedArchive
  THEN /\ outcome' = hotResult
       /\ pc' = "main"
       /\ UNCHANGED <<attemptedArchive, ARCHIVE_SHARD_CACHE, log, failures>>
  ELSE \E ok \in BOOLEAN :
         archiveShardAnswered(fetchArchiveShard(parent, child, year, month, ok),
                              slugOrTitle(hotResult.post), key, parent, child, year, month,
                              ok, hotResult, "main")

\* the shard a context names (a null context names none)
archiveFromContext(parent, child, year, month) ==
  archiveOfStub(ArchiveScopeKey(parent, child, year, month), parent, child, year, month)

archiveFromStub(context) ==
  archiveFromContext(OrIndex(Field(context, "parent")), OrIndex(Field(context, "child")),
                     Num(context, "year"), Num(context, "month"))

\* ensureArchiveFromHot + its handlers in loadArticleForSlug: the archive
\* month the hot stub points at (by its canonical URL or its date), unless
\* that shard was attempted already; the stub itself when that gives nothing
ensureArchiveFromHot ==
  /\ resolver = "part_008"
  /\ pc = "ensureArchiveFromHot"
  /\ archiveFromStub(ensureArchiveContextFromPost8(hotResult.post, hotResult.scope))
  /\ UNCHANGED <<requestVars, asideVars, indexVars, walkVars, viewVars, index, slugValue, hotResult,
                 HOT_SHARD_CACHE>>

\* the result of a lookup in posts.json
legacyHit(post) == IF IsNull(post) THEN NULL ELSE LegacyResult(post)

\* the handlers of loadLegacyPost (part_008) and loadLegacyPostFromPostsJson
\* (part_009): posts.json normalised, sorted and de-duplicated, the slug
\* looked up; a rejected request is caught as a miss
legacyLookup(payload, normalized) ==
  IF IsNull(payload) THEN NULL
  ELSE legacyHit(findPostBySlug(shardItems(payload), normalized))

legacyRead(payload, found) ==
  /\ log' = Logged(TRUE, IsNull(payload), LegacyPostsRes)
  /\ failures' = Failed(TRUE, IsNull(payload))
  /\ outcome' = found
  /\ pc' = IF IsNull(found) THEN "loadArticle" ELSE "main"

legacyAnswered(payload, normalized) == legacyRead(payload, legacyLookup(payload, normalized))

legacyOfSlug(normalized) ==
  IF normalized = EMPTY
  THEN pc' = "loadArticle" /\ UNCHANGED <<outcome, log, failures>>
  ELSE \E ok \in BOOLEAN :
         MayAnswer(ok) /\ legacyAnswered(fetchSequential(LegacyPostsRes, ok), normalized)

\* part_008 loadLegacyPost + the then-handler of loadArticle.next
loadLegacyPost ==
  /\ resolver = "part_008"
  /\ pc = "loadLegacyPost"
  /\ legacyOfSlug(slugify(slugValue))
  /\ UNCHANGED <<requestVars, asideVars, indexVars, walkVars, viewVars, index, slugValue,
                 attemptedArchive, hotResult, HOT_SHARD_CACHE, ARCHIVE_SHARD_CACHE>>

\* ------------------------------------------------------------------ part_009
\* a || b on text
Or(a, b) == IF a # EMPTY THEN a ELSE b
\* a || b on URL text
OrUrl(a, b) == IF UrlTruthy(a) THEN a ELSE b
\* a || b on dates
OrNum(a, b) == IF a # 0 THEN a ELSE b

\* the document the path of a canonical URL names
canonicalDocument(segs) ==
  IF Len(segs) = 5
  THEN [Res("canonical", segs[1], segs[2], parseInt(segs[3]), parseInt(segs[4]))
          EXCEPT !.slug = segs[5]]
  ELSE Res("canonical", EMPTY, EMPTY, 0, 0)

\* buildCanonicalCandidates: the document a canonical URL names; NULL when the
\* text is blank and there is nothing to request
buildCanonicalCandidates(canonicalUrl) ==
  IF trimUrl(canonicalUrl).kind # "url" THEN NULL ELSE canonicalDocument(canonicalUrl.segs)

\* findPostBySlug(collection, slugValue) || collection[0]
pickOr(match, collection) == IF ~IsNull(match) THEN match ELSE collection[1]
pickArticle(collection, slug) == pickOr(findPostBySlug(collection, slug), collection)

\* the article normalizeArchiveArticlePayload picks from a document: the post
\* or article object, else the item of a list with the slug, else the FIRST
\* item of the list, else the document itself when it looks like an article
normalizeArchiveArticlePayload(payload, slug) ==
  IF IsNull(payload) THEN NULL
  ELSE IF "array" \in DOMAIN payload
       THEN (IF payload.array = << >> THEN NULL ELSE pickArticle(payload.array, slug))
  ELSE IF "post" \in DOMAIN payload THEN payload.post
  ELSE IF "article" \in DOMAIN payload THEN payload.article
  ELSE IF "posts" \in DOMAIN payload /\ payload.posts # << >>
       THEN pickArticle(payload.posts, slug)
  ELSE IF "items" \in DOMAIN payload /\ payload.items # << >>
       THEN pickArticle(payload.items, slug)
  ELSE IF "entry" \in DOMAIN payload THEN payload.entry
  ELSE IF Field(payload, "slug") # EMPTY \/ Field(payload, "title") # EMPTY
            \/ Field(payload, "body") # EMPTY \/ Field(payload, "content") # EMPTY
       THEN payload
  ELSE NULL

\* no canonical document requested
NoDocument == [issued |-> FALSE, rejected |-> FALSE, article |-> NULL, res |-> NULL]

\* the handlers of fetchCanonicalArticle: a failed request is caught as null
canonicalAnswer(candidates, payload, slug) ==
  [issued |-> TRUE, rejected |-> IsNull(payload), res |-> candidates,
   article |-> normalizeArchiveArticlePayload(payload, slug)]

canonicalRequest(candidates, slug, ok) ==
  IF IsNull(candidates) THEN NoDocument
  ELSE canonicalAnswer(candidates, fetchSequential(candidates, ok), slug)

\* fetchCanonicalArticle: whether a request goes out, whether it failed, and
\* the article found (NULL: none)
fetchCanonicalArticle(canonicalUrl, slug, ok) ==
  canonicalRequest(buildCanonicalCandidates(canonicalUrl), slug, ok)

\* stripHtml: every tag becomes one space
RECURSIVE stripHtml(_)
stripHtml(value) ==
  IF value = << >> THEN << >>
  ELSE IF Head(value) = "<" /\ \E i \in 2..Len(value) : value[i] = ">"
  THEN <<" ">> \o stripHtml(SubSeq(value, 1 + (CHOOSE i \in 2..Len(value) :
                                               /\ value[i] = ">"
                                               /\ \A j \in 2..(i - 1) : value[j] # ">"),
                                   Len(value)))
  ELSE <<Head(value)>> \o stripHtml(Tail(value))

\* merged.archive_url = archive.archive_url || hot.archive_url || merged.canonical
withArchiveUrl(merged, archive, hot) ==
  [merged EXCEPT !.archive_url = OrUrl(UrlField(archive, "archive_url"),
                                       OrUrl(UrlField(hot, "archive_url"), merged.canonical))]

\* if (!merged.excerpt && archive.summary_html) ...
withSummaryHtml(merged, archive) ==
  [merged EXCEPT !.excerpt = IF @ = EMPTY /\ Field(archive, "summary_html") # EMPTY
                             THEN stripHtml(archive.summary_html) ELSE @]

\* hot.name || archive.name || ''
HotOrArchive(archive, hot, name) == Or(Field(hot, name), Field(archive, name))
\* archive.name || hot.name || ''
ArchiveOrHot(archive, hot, name) == Or(Field(archive, name), Field(hot, name))

mergeArchiveWithHot(archive, hot, slug) ==
  withSummaryHtml(withArchiveUrl(
    [slug |-> slugify(Or(Field(archive, "slug"), Or(Field(hot, "slug"), slug))),
     title |-> ArchiveOrHot(archive, hot, "title"),
     excerpt |-> Or(Field(archive, "excerpt"),
                    Or(Field(archive, "summary"),
                       Or(Field(archive, "description"), Field(hot, "excerpt")))),
     body |-> Or(Field(archive, "body"),
                 Or(Field(archive, "content"),
                    Or(Field(archive, "html"),
                       Or(Field(archive, "content_html"),
                          Or(Field(hot, "body"),
                             Or(Field(archive, "body_html"),
                                Field(archive, "summary_html"))))))),
     cover |-> Or(Field(archive, "cover"), Or(Field(archive, "image"), Field(hot, "cover"))),
     category |-> ArchiveOrHot(archive, hot, "category"),
     subcategory |-> ArchiveOrHot(archive, hot, "subcategory"),
     category_slug |-> ArchiveOrHot(archive, hot, "category_slug"),
     date |-> OrNum(Num(archive, "date"),
                    OrNum(Num(archive, "published_at"),
                          OrNum(Num(archive, "created_at"),
                                OrNum(Num(hot, "date"),
                                      OrNum(Num(hot, "published_at"),
                                            Num(hot, "created_at")))))),
     published_at |-> OrNum(Num(archive, "published_at"), Num(hot, "published_at")),
     updated_at |-> OrNum(Num(archive, "updated_at"), Num(hot, "updated_at")),
     source |-> ArchiveOrHot(archive, hot, "source"),
     source_name |-> ArchiveOrHot(archive, hot, "source_name"),
     source_domain |-> ArchiveOrHot(archive, hot, "source_domain"),
     author |-> ArchiveOrHot(archive, hot, "author"),
     rights |-> ArchiveOrHot(archive, hot, "rights"),
     canonical |-> OrUrl(UrlField(archive, "canonical"), UrlField(hot, "canonical")),
     archive_url |-> NoUrl,
     url |-> OrUrl(UrlField(archive, "url"), UrlField(hot, "url"))],
    archive, hot), archive)

\* parsedCanonical, with ARCHIVE_ORIGIN for a missing origin
withOrigin(parsedCanonical) ==
  [parsedCanonical EXCEPT !.origin = IF @ = "" THEN ARCHIVE_ORIGIN ELSE @]

\* the result loadCanonicalFromHot builds
canonicalResultOf(mergedPost, hot, parsedCanonical) ==
  [post |-> mergedPost, source |-> "archive", scope |-> hot.scope,
   context |-> IF ~IsNull(parsedCanonical) THEN withOrigin(parsedCanonical)
               ELSE ensureArchiveContextFromPost9(mergedPost, hot.scope)]

\* parseCanonicalUrl(article.canonical || canonicalUrl) || parseCanonicalUrl(canonicalUrl)
parsedOr(first, canonicalUrl) ==
  IF ~IsNull(first) THEN first ELSE parseCanonicalUrl9(canonicalUrl)

CanonicalResult(article, hot, slug, canonicalUrl) ==
  canonicalResultOf(mergeArchiveWithHot(article, hot.post, slug), hot,
                    parsedOr(parseCanonicalUrl9(OrUrl(UrlField(article, "canonical"),
                                                      canonicalUrl)),
                             canonicalUrl))

\* the handlers of loadCanonicalFromHot and those loadArticleForSlug attaches
canonicalRead(f, canonicalUrl, ok) ==
  /\ Requested(f, ok)
  /\ outcome' = IF IsNull(f.article) THEN hotResult
                ELSE CanonicalResult(f.article, hotResult, slugValue, canonicalUrl)

canonicalOfStub(canonicalUrl) ==
  IF ~UrlTruthy(canonicalUrl)
  THEN outcome' = hotResult /\ UNCHANGED <<log, failures>>
  ELSE \E ok \in BOOLEAN :
         canonicalRead(fetchCanonicalArticle(canonicalUrl, slugValue, ok), canonicalUrl, ok)

\* loadCanonicalFromHot + its handlers in loadArticleForSlug: the document the
\* hot stub's canonical URL names, merged with the stub; the stub alone when
\* there is no such document
loadCanonicalFromHot ==
  /\ resolver = "part_009"
  /\ pc = "loadCanonicalFromHot"
  /\ canonicalOfStub(canonicalOrArchiveUrl(hotResult.post))
  /\ pc' = "main"
  /\ UNCHANGED <<requestVars, asideVars, indexVars, walkVars, viewVars, index, slugValue,
                 attemptedArchive, hotResult, HOT_SHARD_CACHE, ARCHIVE_SHARD_CACHE>>

\* the record addEntry keeps for the post it built from an index entry
recordOf(entry, post) ==
  [slug |-> post.slug, post |-> post,
   scope |-> Scope(OrIndex(Or(slugify(Field(entry, "parent")), getPostParentSlug(post))),
                   OrIndex(Or(slugify(Field(entry, "child")), getPostChildSlug(post)))),
   canonical |-> post.canonical,
   year |-> post.date \div 100, month |-> post.date % 100]

\* normalizeLegacyLookupPayload.addEntry
addEntry(entry) ==
  recordOf(entry,
           [slug |-> slugify(Field(entry, "slug")), title |-> Field(entry, "title"),
            category_slug |-> Field(entry, "category_slug"),
            date |-> OrNum(Num(entry, "date"), Num(entry, "published_at")),
            canonical |-> OrUrl(UrlField(entry, "canonical"), UrlField(entry, "archive_url"))])

\* the entries of a lookup payload, each as addEntry keeps it
RECURSIVE addEntries(_)
addEntries(items) ==
  IF items = << >> THEN << >> ELSE <<addEntry(Head(items))>> \o addEntries(Tail(items))

\* the last record with the slug: a later entry overwrites an earlier one
lastWithSlug(records, hits) ==
  IF hits = {} THEN NULL ELSE records[CHOOSE i \in hits : \A j \in hits : j <= i]

lookupRecord(records, normalized) ==
  IF normalized = EMPTY THEN NULL
  ELSE lastWithSlug(records, {i \in 1..Len(records) : records[i].slug = normalized})

\* normalizeLegacyLookupPayload + lookup[normalized] (NULL: not listed)
normalizeLegacyLookupPayload(payload, normalized) ==
  lookupRecord(addEntries(IF IsNull(payload) THEN << >>
                          ELSE IF "array" \in DOMAIN payload THEN payload.array
                          ELSE IF "items" \in DOMAIN payload THEN payload.items
                          ELSE IF "data" \in DOMAIN payload THEN payload.data
                          ELSE << >>),
               normalized)

\* fetchArchivePostsForRecord: the month index a legacy record points at
\* (NULL: the record names no month)
archiveIndexOfRecord(record) ==
  IF record.year # 0 /\ record.month # 0
  THEN Res("archive", record.scope.parent, record.scope.child, record.year, record.month)
  ELSE NULL

\* 1 for a request that went out and failed
Lost(issued, rejected) == IF issued /\ rejected THEN 1 ELSE 0

\* the result loadLegacyPost builds for a listed slug (NULL: the canonical
\* document gave no article with a body)
legacyFromIndex(entry, mergedPost) ==
  IF ~IsNull(mergedPost) /\ mergedPost.body # EMPTY
  THEN [post |-> mergedPost, source |-> "legacy", scope |-> entry.scope,
        context |-> ensureArchiveContextFromPost9(mergedPost, entry.scope)]
  ELSE NULL

\* what a call of loadLegacyPost amounts to, given the answers of its requests
legacyOutcome(normalized, lookupFailed, doc, monthRes, monthFailed, fromIndex, postsPayload, okDoc, okMonth, okPosts) ==
  [result |-> IF IsNull(fromIndex) THEN legacyLookup(postsPayload, normalized)
              ELSE fromIndex,
   fetched |-> <<Probe(LegacyLookupRes, TRUE, lookupFailed)>>
                 \o (IF doc.issued THEN <<Probe(doc.res, TRUE, doc.rejected)>> ELSE << >>)
                 \o (IF ~IsNull(monthRes) THEN <<Probe(monthRes, TRUE, monthFailed)>>
                     ELSE << >>)
                 \o (IF IsNull(fromIndex)
                     THEN <<Probe(LegacyPostsRes, TRUE, IsNull(postsPayload))>> ELSE << >>),
   failed |-> Lost(TRUE, lookupFailed) + Lost(doc.issued, doc.rejected)
                + Lost(~IsNull(monthRes), monthFailed)
                + Lost(IsNull(fromIndex), IsNull(postsPayload)),
   idle |-> (doc.issued \/ okDoc) /\ (~IsNull(monthRes) \/ okMonth)
              /\ (IsNull(fromIndex) \/ okPosts)]

\* the requests made for the record of a listed slug (entry = NULL: not listed)
legacyOfEntry(normalized, lookupFailed, entry, doc, monthRes, okDoc, okMonth, okPosts) ==
  legacyOutcome(normalized, lookupFailed, doc, monthRes,
                IsNull(fetchSequential(monthRes, okMonth)),
                legacyFromIndex(entry,
                                IF IsNull(doc.article) THEN NULL
                                ELSE mergeArchiveWithHot(doc.article, entry.post, normalized)),
                fetchSequential(LegacyPostsRes, okPosts), okDoc, okMonth, okPosts)

legacyOfLookup(normalized, lookupFailed, entry, okDoc, okMonth, okPosts) ==
  legacyOfEntry(normalized, lookupFailed, entry,
                IF ~IsNull(entry) /\ UrlTruthy(entry.canonical)
                THEN fetchCanonicalArticle(entry.canonical, normalized, okDoc)
                ELSE NoDocument,
                IF ~IsNull(entry) THEN archiveIndexOfRecord(entry) ELSE NULL,
                okDoc, okMonth, okPosts)

legacyOfPayload(normalized, lookupPayload, okDoc, okMonth, okPosts) ==
  legacyOfLookup(normalized, IsNull(lookupPayload),
                 IF IsNull(lookupPayload) THEN NULL
                 ELSE normalizeLegacyLookupPayload(lookupPayload, normalized),
                 okDoc, okMonth, okPosts)

\* one call of part_009 loadLegacyPost: the legacy lookup index; for a listed
\* slug the canonical document and the month index of the record, merged; when
\* that gives no article with a body, posts.json.  Every failure is caught.
\* okIndex, okDoc, okMonth, okPosts: whether each request is answered.
LegacyCall(okIndex, okDoc, okMonth, okPosts) ==
  IF slugify(slugValue) = EMPTY
  THEN [result |-> NULL, fetched |-> << >>, failed |-> 0,
        idle |-> okIndex /\ okDoc /\ okMonth /\ okPosts]
  ELSE legacyOfPayload(slugify(slugValue), fetchSequential(LegacyLookupRes, okIndex),
                       okDoc, okMonth, okPosts)

\* the state a call leaves; missPc: where the chain goes on after a null
legacySettle(call, missPc) ==
  /\ call.idle
  /\ failures + call.failed <= MaxFail
  /\ failures' = failures + call.failed
  /\ log' = log \o call.fetched
  /\ outcome' = call.result
  /\ pc' = IF IsNull(call.result) THEN missPc ELSE "main"

LegacyStep(missPc) ==
  /\ \E okIndex, okDoc, okMonth, okPosts \in BOOLEAN :
       legacySettle(LegacyCall(okIndex, okDoc, okMonth, okPosts), missPc)
  /\ UNCHANGED <<requestVars, asideVars, indexVars, walkVars, viewVars, index, slugValue,
                 attemptedArchive, hotResult, HOT_SHARD_CACHE, ARCHIVE_SHARD_CACHE>>

\* part_009 loadArticleForSlug, first handler: the hot tier missed, so
\* loadLegacyPost is called
loadLegacyPostAfterHot ==
  /\ resolver = "part_009"
  /\ pc = "loadLegacyPost"
  /\ LegacyStep("loadLegacyPostAgain")

\* part_009 loadArticleForSlug, last handler: the chain resolved with null, so
\* loadLegacyPost is called; a null goes back to loadArticle.next
loadLegacyPostAgain ==
  /\ resolver = "part_009"
  /\ pc = "loadLegacyPostAgain"
  /\ LegacyStep("loadArticle")

\* ------------------------------------------------------------------ page
\* what renderPost is given
viewOf(result) == [context |-> result.context, scope |-> result.scope]

\* the handlers main attaches to loadArticle: render the post and publish its
\* canonical URL, or show an error
main ==
  /\ pc = "main"
  /\ pc' = "done"
  /\ IF outcome = REJECTED
     THEN page' = "failed" /\ published' = published
     ELSE IF IsNull(outcome)
     THEN page' = "notfound" /\ published' = published
     ELSE /\ page' = "article"
          /\ published' = IF resolver = "part_008"
                          THEN updateSeoMetadata8(outcome.post, viewOf(outcome))
                          ELSE updateSeoMetadata9(outcome.post, viewOf(outcome))
  /\ UNCHANGED <<requestVars, asideVars, indexVars, walkVars, index, slugValue, attemptedArchive,
                 hotResult, outcome, HOT_SHARD_CACHE, ARCHIVE_SHARD_CACHE, log, failures>>

Next ==
  \/ loadArticle
  \/ loadArchivePost
  \/ searchArchiveByMonths
  \/ searchArchiveViaManifest
  \/ archiveManifestNext
  \/ loadHotPost
  \/ searchHotViaManifest
  \/ hotManifestNext
  \/ ensureArchiveFromHot
  \/ loadLegacyPost
  \/ loadCanonicalFromHot
  \/ loadLegacyPostAfterHot
  \/ loadLegacyPostAgain
  \/ main

Spec == Init /\ [][Next]_vars

\* ------------------------------------------------------- mergeArchiveWithHot
\* the archive articles and hot stubs mergeArchiveWithHot is applied to
MergeArchives ==
  [slug : {EMPTY, RAW_A}, title : {EMPTY, <<"A">>}, body : {EMPTY, FULL_TEXT},
   content : {EMPTY, OLD_TEXT}, summary_html : {EMPTY, <<"<", "p", ">", "x">>},
   date : {0, ArchiveYear * 100 + 1}, canonical : {NoUrl, BlankUrl, CanonOf("url", 1)}]
MergeHots ==
  [slug : {SLUG_B}, title : {EMPTY, <<"B">>}, body : {EMPTY, OLD_TEXT},
   excerpt : {EMPTY, <<"x">>}, date : {0, ArchiveYear * 100 + 2},
   canonical : {NoUrl, CanonOf("url", 2)}]

\* nothing loading: only mergeArchiveWithHot is about to be called
InitMerge ==
  /\ NoOtherReaders
  /\ mergeArgs \in [archive : MergeArchives, hot : MergeHots, slug : {RAW_C}]
  /\ mergeResult = NULL
  /\ resolver = "part_009"
  /\ world = World(NOWHERE, NOWHERE, 0, FALSE, "missing", FALSE, FALSE)
  /\ slugCandidates = <<RAW_C>>
  /\ scopeHint = SC_ROOT
  /\ pc = "mergeArchiveWithHot"
  /\ Unloaded
  /\ NoCallers
  /\ NoIndexes
  /\ NoVerify
  /\ NoListing
  /\ NoRotation
  /\ NoBatch

\* one call of mergeArchiveWithHot
merge ==
  /\ pc = "mergeArchiveWithHot"
  /\ mergeResult' = mergeArchiveWithHot(mergeArgs.archive, mergeArgs.hot, mergeArgs.slug)
  /\ pc' = "merged"
  /\ UNCHANGED <<requestVars, indexVars, walkVars, viewVars, mergeArgs, index, slugValue,
                 attemptedArchive, hotResult, outcome, HOT_SHARD_CACHE, ARCHIVE_SHARD_CACHE,
                 log, failures, shardVars, gatherVars, dedupVars, restVars>>

NextMerge == merge

SpecMerge == InitMerge /\ [][NextMerge]_vars

\* ----------------------------------------------------------- a long archive
\* part_008 against an archive tree of MaxListed months
WorldsLookback ==
  {World(hot, archive, MaxListed, listed, "missing", legacy, FALSE) :
     hot \in {NOWHERE, HotPlace(SC_NEWS, "dated")},
     archive \in {NOWHERE, ArchivePlace(SC_EU, 1, "none")},
     listed \in BOOLEAN, legacy \in BOOLEAN}

InitLookback ==
  /\ NoOtherReaders
  /\ resolver = "part_008"
  /\ world \in WorldsLookback
  /\ slugCandidates = <<RAW_A>>
  /\ scopeHint = SC_EU
  /\ pc = "loadArticle"
  /\ Unloaded
  /\ mergeArgs = NULL
  /\ mergeResult = NULL
  /\ NoCallers
  /\ NoIndexes
  /\ NoVerify
  /\ NoListing
  /\ NoRotation
  /\ NoBatch

NextLookback ==
  \/ loadArticle
  \/ loadArchivePost
  \/ searchArchiveByMonths
  \/ searchArchiveViaManifest
  \/ archiveManifestNext
  \/ loadHotPost
  \/ searchHotViaManifest
  \/ hotManifestNext
  \/ ensureArchiveFromHot
  \/ loadLegacyPost
  \/ main

SpecLookback == InitLookback /\ [][NextLookback]_vars

\* ----------------------------------------------------------- shard requests
\* fetchHotShard and fetchArchiveShard of part_008 called by several components
\* of one page view, each request settling some time after it went out
Components == {"listing", "related", "seo"}
HotShardFiles == {buildHotShardCandidates(s.parent, s.child) : s \in {SC_EU, SC_ROOT}}
ArchiveShardFiles == {buildArchiveMonthCandidates(NEWS, EU, ArchiveYear, 1)}

ShardKey(res) ==
  IF res.tier = "hot" THEN HotScopeKey(res.parent, res.child)
  ELSE ArchiveScopeKey(res.parent, res.child, res.year, res.month)

Caller(state, res, left, items) == [state |-> state, res |-> res, left |-> left, items |-> items]

\* a cache that keeps what a request resolved with, and not its promise
MemoizedOnceSettled(cache, scopeKey, res) == scopeKey \in DOMAIN cache
\* the cache has a promise under the key: one that resolved, or one in flight
Memoized(cache, scopeKey, res) == scopeKey \in DOMAIN cache \/ res \in pending

\* the body of a memoized shard function called by component c: the promise
\* of the cache is returned, or a request goes out and its promise is stored
shardQueried(c, cache, res, by) ==
  /\ callers[c].state # "waiting"
  /\ callers[c].left > 0
  /\ IF Memoized(cache, ShardKey(res), res)
     THEN /\ UNCHANGED <<log, pending>>
          /\ callers' = [callers EXCEPT ![c] =
               IF ShardKey(res) \in DOMAIN cache
               THEN Caller("served", res, @.left - 1, cache[ShardKey(res)])
               ELSE Caller("waiting", res, @.left - 1, << >>)]
     ELSE /\ log' = Append(log, [call |-> c, by |-> by, res |-> res, issued |-> TRUE,
                                 failed |-> FALSE])
          /\ pending' = pending \cup {res}
          /\ callers' = [callers EXCEPT ![c] = Caller("waiting", res, @.left - 1, << >>)]

\* the last request that went out for a file
LastRequest(res) == CHOOSE i \in 1..Len(log) :
  log[i].res = res /\ \A j \in 1..Len(log) : log[j].res = res => j <= i

\* the handlers of a shard request: .then keeps the items under the key,
\* .catch deletes the key and rethrows to every component that holds the promise
shardSettled(res, ok, items) ==
  /\ res \in pending
  /\ MayAnswer(ok)
  /\ pending' = pending \ {res}
  /\ failures' = IF ok THEN failures ELSE failures + 1
  /\ log' = IF ok THEN log ELSE [log EXCEPT ![LastRequest(res)].failed = TRUE]
  /\ callers' = [c \in DOMAIN callers |->
       IF callers[c].state = "waiting" /\ callers[c].res = res
       THEN Caller(IF ok THEN "served" ELSE "rejected", res, callers[c].left, items)
       ELSE callers[c]]

pageVars == <<requestVars, indexVars, walkVars, viewVars, mergeVars, gatherVars, dedupVars, restVars, pc, index, slugValue, attemptedArchive, hotResult, outcome>>

queryHotShard ==
  /\ \E c \in DOMAIN callers, res \in HotShardFiles :
       shardQueried(c, HOT_SHARD_CACHE, res, "fetchHotShard")
  /\ UNCHANGED <<pageVars, HOT_SHARD_CACHE, ARCHIVE_SHARD_CACHE, failures>>

queryArchiveShard ==
  /\ \E c \in DOMAIN callers, res \in ArchiveShardFiles :
       shardQueried(c, ARCHIVE_SHARD_CACHE, res, "fetchArchiveShard")
  /\ UNCHANGED <<pageVars, HOT_SHARD_CACHE, ARCHIVE_SHARD_CACHE, failures>>

hotShardSettled ==
  /\ \E res \in HotShardFiles, ok \in BOOLEAN :
       /\ shardSettled(res, ok, IF ok THEN shardItems(fetchSequential(res, ok)) ELSE << >>)
       /\ HOT_SHARD_CACHE' =
            IF ok THEN CachePut(HOT_SHARD_CACHE, ShardKey(res), shardItems(fetchSequential(res, ok)))
            ELSE HOT_SHARD_CACHE
  /\ UNCHANGED <<pageVars, ARCHIVE_SHARD_CACHE>>

archiveShardSettled ==
  /\ \E res \in ArchiveShardFiles, ok \in BOOLEAN :
       /\ shardSettled(res, ok, IF ok THEN shardItems(fetchSequential(res, ok)) ELSE << >>)
       /\ ARCHIVE_SHARD_CACHE' =
            IF ok THEN CachePut(ARCHIVE_SHARD_CACHE, ShardKey(res), shardItems(fetchSequential(res, ok)))
            ELSE ARCHIVE_SHARD_CACHE
  /\ UNCHANGED <<pageVars, HOT_SHARD_CACHE>>

InitShards ==
  /\ NoOtherReaders
  /\ resolver = "part_008"
  /\ world = World(HotPlace(SC_EU, "dated"), ArchivePlace(SC_EU, 1, "none"), MaxMonths, TRUE, "missing", FALSE, FALSE)
  /\ slugCandidates = <<RAW_A>>
  /\ scopeHint = SC_EU
  /\ pc = "page"
  /\ Unloaded
  /\ mergeArgs = NULL
  /\ mergeResult = NULL
  /\ NoIndexes
  /\ NoVerify
  /\ NoListing
  /\ NoRotation
  /\ NoBatch
  /\ pending = {}
  /\ callers = [c \in Components |-> Caller("idle", NULL, MaxQueries, << >>)]

NextShards ==
  \/ queryHotShard
  \/ queryArchiveShard
  \/ hotShardSettled
  \/ archiveShardSettled

SpecShards == InitShards /\ [][NextShards]_vars

\* ------------------------------------------------------------ search indexes
\* ensureIndexes of the search index loaders (part_006, and part_007 with the
\* same body): the month indexes of a scope are asked for together
buildIndexUrls(parent, child, year, month) ==
  Res("search", OrIndex(slugify(parent)), OrIndex(slugify(child)), year, month)

normalizeEntries(payload) ==
  IF IsNull(payload) THEN << >>
  ELSE IF "array" \in DOMAIN payload THEN payload.array
  ELSE IF "items" \in DOMAIN payload THEN payload.items
  ELSE IF "entries" \in DOMAIN payload THEN payload.entries
  ELSE IF "results" \in DOMAIN payload THEN payload.results
  ELSE IF "data" \in DOMAIN payload THEN payload.data
  ELSE IF "entry" \in DOMAIN payload THEN <<payload.entry>>
  ELSE IF "post" \in DOMAIN payload THEN <<payload.post>>
  ELSE << >>

\* the comparator of months.sort puts a before b
MonthBefore(a, b) == IF a.year = b.year THEN a.month >= b.month ELSE a.year > b.year
RECURSIVE insertMonth(_, _)
insertMonth(sorted, info) ==
  IF sorted = << >> THEN <<info>>
  ELSE IF MonthBefore(Head(sorted), info)
       THEN <<Head(sorted)>> \o insertMonth(Tail(sorted), info)
       ELSE <<info>> \o sorted
RECURSIVE sortMonths(_)
sortMonths(list) ==
  IF list = << >> THEN << >>
  ELSE insertMonth(sortMonths(SubSeq(list, 1, Len(list) - 1)), list[Len(list)])

slice(list, n) == SubSeq(list, 1, IF Len(list) < n THEN Len(list) ELSE n)

\* new Date(): the month of the newest shard of the tree
Now == [year |-> YearOf(MaxMonths), month |-> MonthOf(MaxMonths)]

\* the months ensureIndexes asks for: those the Summary lists for the scope,
\* or the current month, newest first and MAX_MONTHS at most
indexMonthsOf(listed) ==
  slice(sortMonths(IF listed = << >> THEN <<Now>> ELSE listed), MAX_MONTHS)

\* the request of loadMonthIndex number i has settled
Arrived(i) == \E k \in 1..Len(arrival) : arrival[k] = i

RECURSIVE combineInArrival(_, _)
\* the lists put together in the order in which the requests settled
combineInArrival(results, order) ==
  IF order = << >> THEN << >>
  ELSE results[Head(order)] \o combineInArrival(results, Tail(order))

RECURSIVE combineLists(_, _)
\* the then-handler of Promise.all: the lists put together in the order of
\* the months, whatever the order in which the requests settled
combineLists(results, order) ==
  IF results = << >> THEN << >>
  ELSE Head(results) \o combineLists(Tail(results), order)

\* ensureIndexes: the Summary is read, and in its then-handler every month
\* index of the scope is asked for
ensureIndexes ==
  /\ pc = "ensureIndexes"
  /\ \E ok \in BOOLEAN :
       /\ Requested(getArchiveSummary(ok), ok)
       /\ ARCHIVE_SUMMARY_PROMISE' = getArchiveSummary(ok).promise
       /\ indexMonths' = indexMonthsOf(monthsOfScope(getArchiveSummary(ok).value, scopeHint))
  /\ lists' = [i \in 1..Len(indexMonths') |-> << >>]
  /\ arrival' = << >>
  /\ pc' = "Promise.all"
  /\ UNCHANGED <<requestVars, mergeVars, shardVars, dedupVars, restVars, walkVars, viewVars, index, slugValue,
                 attemptedArchive, hotResult, outcome, HOT_SHARD_CACHE, ARCHIVE_SHARD_CACHE,
                 ARCHIVE_MANIFEST_PROMISE, HOT_MANIFEST_PROMISE, combined>>

\* the file of the month index number i of the scope
MonthIndexRes(i) ==
  buildIndexUrls(scopeHint.parent, scopeHint.child, indexMonths[i].year, indexMonths[i].month)

\* loadMonthIndex: one of the requests in flight settles; a failure is caught
\* and reads as an empty list
loadMonthIndex ==
  /\ pc = "Promise.all"
  /\ \E i \in 1..Len(indexMonths), ok \in BOOLEAN :
       /\ ~Arrived(i)
       /\ Requested([issued |-> TRUE, rejected |-> ~ok, res |-> MonthIndexRes(i)], ok)
       /\ lists' = [lists EXCEPT ![i] = normalizeEntries(fetchSequential(MonthIndexRes(i), ok))]
       /\ arrival' = Append(arrival, i)
  /\ UNCHANGED <<requestVars, indexVars, mergeVars, shardVars, dedupVars, restVars, walkVars, viewVars, pc, index,
                 slugValue, attemptedArchive, hotResult, outcome, HOT_SHARD_CACHE,
                 ARCHIVE_SHARD_CACHE, indexMonths, combined>>

\* the then-handler of Promise.all runs once every request has settled
indexesCombined ==
  /\ pc = "Promise.all"
  /\ \A i \in 1..Len(indexMonths) : Arrived(i)
  /\ combined' = combineLists(lists, arrival)
  /\ pc' = "combined"
  /\ UNCHANGED <<requestVars, indexVars, mergeVars, shardVars, dedupVars, restVars, walkVars, viewVars, index,
                 slugValue, attemptedArchive, hotResult, outcome, HOT_SHARD_CACHE,
                 ARCHIVE_SHARD_CACHE, log, failures, indexMonths, lists, arrival>>

InitIndexes ==
  /\ NoOtherReaders
  /\ resolver \in {"part_006", "part_007"}
  /\ world \in {World(NOWHERE, NOWHERE, MaxMonths, listed, "missing", FALSE, FALSE) : listed \in BOOLEAN}
  /\ slugCandidates = <<RAW_A>>
  /\ scopeHint \in HotScopes
  /\ pc = "ensureIndexes"
  /\ Unloaded
  /\ mergeArgs = NULL
  /\ mergeResult = NULL
  /\ NoCallers
  /\ NoIndexes
  /\ NoVerify
  /\ NoListing
  /\ NoRotation
  /\ NoBatch

NextIndexes ==
  \/ ensureIndexes
  \/ loadMonthIndex
  \/ indexesCombined

SpecIndexes == InitIndexes /\ [][NextIndexes]_vars

\* ------------------------------------------------------------------ Deduper
\* the Deduper of the data loader (assets/js/data-loader.js), fed the posts of
\* a listing one after the other
DedupKey(kind, value) == <<kind, value>>
KeyIf(kind, value) == IF value # EMPTY THEN <<DedupKey(kind, value)>> ELSE << >>

\* Deduper.prototype._keysFor: every key the post has, not the first one only
keysFor(post) ==
  IF IsNull(post) THEN << >>
  ELSE KeyIf("id", Field(post, "id"))
         \o KeyIf("slug", lowerText(Field(post, "slug")))
         \o KeyIf("url", Or(Or(Field(post, "url"), Field(post, "link")), Field(post, "permalink")))
         \o KeyIf("guid", Field(post, "guid"))
         \o (IF trim(Field(post, "title")) # EMPTY
             THEN <<DedupKey("title-date", trim(Field(post, "title")) \o <<"|">> \o trim(Field(post, "date")))>>
             ELSE << >>)

\* the first of its keys only
firstKeyOf(post) == IF keysFor(post) = << >> THEN << >> ELSE <<Head(keysFor(post))>>

\* an add that lets every post through
addReturnsTrue(keys, known) == TRUE
\* Deduper.prototype.add: false when one of the keys has been seen
addReturns(keys, known) == keys = << >> \/ \A i \in 1..Len(keys) : keys[i] \notin known
addSeen(keys, known) ==
  IF addReturns(keys, known) THEN known \cup {keys[i] : i \in 1..Len(keys)} ELSE known

\* the loop of the listing: the next post of the batch is offered to the Deduper
deduperAdd ==
  /\ pc = "Deduper"
  /\ Len(addResults) < Len(batch)
  /\ addResults' = Append(addResults, addReturns(keysFor(batch[Len(addResults) + 1]), deduperSeen))
  /\ deduperSeen' = addSeen(keysFor(batch[Len(addResults) + 1]), deduperSeen)
  /\ UNCHANGED <<requestVars, indexVars, walkVars, viewVars, mergeVars, shardVars, gatherVars,
                 restVars, pc, index, slugValue, attemptedArchive, hotResult, outcome, HOT_SHARD_CACHE,
                 ARCHIVE_SHARD_CACHE, log, failures, batch>>

STORM == <<"S">>
DedupPosts ==
  [id : {EMPTY, <<"1">>}, slug : {EMPTY, <<"a">>, <<"A">>}, url : {EMPTY, <<"u">>, <<"v">>},
   title : {EMPTY, STORM}, date : {<<"2">>}]
    \cup {[guid |-> <<"g">>, title |-> <<" ", "S">>, date |-> <<"2", " ">>]}

InitDedup ==
  /\ NoOtherReaders
  /\ batch \in UNION {[1..n -> DedupPosts] : n \in 1..MaxBatch}
  /\ deduperSeen = {}
  /\ addResults = << >>
  /\ resolver = "data-loader"
  /\ world = World(NOWHERE, NOWHERE, 0, FALSE, "missing", FALSE, FALSE)
  /\ slugCandidates = <<RAW_A>>
  /\ scopeHint = SC_ROOT
  /\ pc = "Deduper"
  /\ Unloaded
  /\ mergeArgs = NULL
  /\ mergeResult = NULL
  /\ NoCallers
  /\ NoIndexes
  /\ NoVerify
  /\ NoListing
  /\ NoRotation

NextDedup == deduperAdd

SpecDedup == InitDedup /\ [][NextDedup]_vars

\* ------------------------------------------------- critical index verification
\* scripts/check-critical-indexes.js. A path is a sequence of pieces: names,
\* "/" and "\\" separators and blanks
DATA_INDEX == <<"data", "/", "index.json">>
HOT_ROOT == <<"data", "/", "hot", "/">>

RECURSIVE stripLeadingSlashes(_)
stripLeadingSlashes(p) ==
  IF p # << >> /\ Head(p) = "/" THEN stripLeadingSlashes(Tail(p)) ELSE p

\* normalizeRelative: backslashes become slashes, leading slashes go, then
\* the blanks at both ends
normalizeRelative(relativePath) ==
  trim(stripLeadingSlashes([i \in 1..Len(relativePath) |->
         IF relativePath[i] = "\\" THEN "/" ELSE relativePath[i]]))

\* a reading of the flag that leaves is_global out
isFlaggedCritical(shard) == shard.critical
\* the shard is flagged: is_global or critical
isFlagged(shard) == shard.is_global \/ shard.critical

endsWithIndexJson(p) == p # << >> /\ p[Len(p)] = "index.json"

RECURSIVE addUnique(_, _)
\* Set.prototype.add, the set kept in insertion order
addUnique(list, item) ==
  IF list = << >> THEN <<item>>
  ELSE IF Head(list) = item THEN list
  ELSE <<Head(list)>> \o addUnique(Tail(list), item)

RECURSIVE criticalOf(_, _)
\* the loop of collectHotCriticalIndexes over manifest.shards
criticalOf(shards, found) ==
  IF shards = << >> THEN found
  ELSE IF ~isFlagged(Head(shards)) THEN criticalOf(Tail(shards), found)
  ELSE IF ~endsWithIndexJson(normalizeRelative(Head(shards).path))
       THEN criticalOf(Tail(shards), found)
  ELSE criticalOf(Tail(shards), addUnique(found, HOT_ROOT \o normalizeRelative(Head(shards).path)))

collectedFrom(manifestJson) ==
  IF IsNull(manifestJson) \/ "shards" \notin DOMAIN manifestJson THEN << >>
  ELSE criticalOf(manifestJson.shards, << >>)

\* fs.statSync of a path: "missing" (it throws), "dir", "empty" or "full"
statSync(p) == IF p \in DOMAIN disk THEN disk[p] ELSE "missing"

\* main calls collectHotCriticalIndexes and joins data/index.json with what
\* it returns
collectHotCriticalIndexes ==
  /\ pc = "collectHotCriticalIndexes"
  /\ indexPaths' = IF collectedFrom(hotManifestFile) = << >> THEN <<DATA_INDEX>>
                   ELSE <<DATA_INDEX>> \o collectedFrom(hotManifestFile)
  /\ pc' = "verifyIndexes"
  /\ UNCHANGED <<resolverVars, clientVars, listingVars, rotationVars, readerVars, hotManifestFile, disk, missingFiles,
                 emptyFiles, exitCode>>

RECURSIVE selectPaths(_, _)
selectPaths(paths, kinds) ==
  IF paths = << >> THEN << >>
  ELSE (IF statSync(Head(paths)) \in kinds THEN <<Head(paths)>> ELSE << >>)
         \o selectPaths(Tail(paths), kinds)

\* verifyIndexes: the paths that are no file and those of size 0 are reported
\* and the process exits with 1 if there is any
verifyIndexes ==
  /\ pc = "verifyIndexes"
  /\ missingFiles' = selectPaths(indexPaths, {"missing", "dir"})
  /\ emptyFiles' = selectPaths(indexPaths, {"empty"})
  /\ exitCode' = IF missingFiles' # << >> \/ emptyFiles' # << >> THEN 1 ELSE 0
  /\ pc' = "exit"
  /\ UNCHANGED <<resolverVars, clientVars, listingVars, rotationVars, readerVars, hotManifestFile, disk, indexPaths>>

NEWS_INDEX == <<"news", "/", "index.json">>
NEWS_EU == <<"news", "/", "eu.json">>
ShardPaths == {NEWS_INDEX, <<"/", "news", "\\", "index.json", " ">>, NEWS_EU, << >>}
ManifestEntries == [path : ShardPaths, is_global : BOOLEAN, critical : BOOLEAN]
HotManifests ==
  {NULL} \cup {[shards |-> list] : list \in UNION {[1..n -> ManifestEntries] : n \in 1..MaxShards}}
Disks ==
  {(DATA_INDEX :> a) @@ ((HOT_ROOT \o NEWS_INDEX) :> b) @@ ((HOT_ROOT \o NEWS_EU) :> c) :
     a \in {"empty", "full"}, b \in {"missing", "dir", "empty", "full"}, c \in {"missing", "full"}}

\* nothing of the site is loading: a script is about to run
NoPage ==
  /\ world = World(NOWHERE, NOWHERE, 0, FALSE, "missing", FALSE, FALSE)
  /\ slugCandidates = <<RAW_A>>
  /\ scopeHint = SC_ROOT
  /\ Unloaded
  /\ mergeArgs = NULL
  /\ mergeResult = NULL
  /\ NoCallers
  /\ NoIndexes
  /\ NoBatch

InitVerify ==
  /\ NoOtherReaders
  /\ resolver = "check-critical-indexes"
  /\ pc = "collectHotCriticalIndexes"
  /\ hotManifestFile \in HotManifests
  /\ disk \in Disks
  /\ indexPaths = << >>
  /\ missingFiles = << >>
  /\ emptyFiles = << >>
  /\ exitCode = 0
  /\ NoPage
  /\ NoListing
  /\ NoRotation

NextVerify ==
  \/ collectHotCriticalIndexes
  \/ verifyIndexes

SpecVerify == InitVerify /\ [][NextVerify]_vars

\* ----------------------------------------------------------------- listings
\* the listing scripts of one site: the archive list (js/archive.js), the
\* archive page (part_010) and the category list (js/category.js), each
\* running its own promise chain
View(step, shown) == [step |-> step, shown |-> shown]
\* what a request of a listing resolves with: every request rejects when the
\* data loader is not on the page
Answered(kind) == IF sources.loader THEN kind ELSE "failed"

listingLeaves == <<resolverVars, clientVars, verifyVars, rotationVars, readerVars, pc, sources>>

\* archive.js, ready: fetchSummary is called
archiveReady ==
  /\ views["archive.js"].step = "ready"
  /\ views' = [views EXCEPT !["archive.js"] = View("fetchSummary", @.shown)]
  /\ UNCHANGED listingLeaves

\* what renderArchive and renderSummary leave of a Summary
renderedSummary(kind) == IF kind = "listed" THEN "content" ELSE "empty"

\* archive.js: the handlers of fetchSummary
archiveSummary ==
  /\ views["archive.js"].step = "fetchSummary"
  /\ views' = [views EXCEPT !["archive.js"] =
       View("done", IF Answered(sources.summary) \in {"failed", "null"} THEN "empty"
                    ELSE renderedSummary(Answered(sources.summary)))]
  /\ UNCHANGED listingLeaves

\* part_010, ready: the loading element is shown and the Summary asked for
archivePageReady ==
  /\ views["part_010"].step = "ready"
  /\ views' = [views EXCEPT !["part_010"] =
       IF sources.loader THEN View("fetchSequential", "loading") ELSE View("done", "empty")]
  /\ UNCHANGED listingLeaves

\* part_010: the handlers of the Summary request
archivePageSummary ==
  /\ views["part_010"].step = "fetchSequential"
  /\ views' = [views EXCEPT !["part_010"] =
       View("done", IF Answered(sources.summary) = "failed" THEN "empty"
                    ELSE renderedSummary(Answered(sources.summary)))]
  /\ UNCHANGED listingLeaves

\* category.js: the taxonomy request settles; a failure is logged
taxonomyPromise ==
  /\ views["category.js"].step = "taxonomyPromise"
  /\ views' = [views EXCEPT !["category.js"] = View("loadHotCategory", @.shown)]
  /\ UNCHANGED listingLeaves

\* renderList
renderedList(kind) == IF kind = "posts" THEN "content" ELSE "empty"

\* category.js, loadHotCategory: the summaries read as null when they fail;
\* the hot shard is rendered, or its failure hands over to loadLegacyDataset
loadHotCategory ==
  /\ views["category.js"].step = "loadHotCategory"
  /\ views' = [views EXCEPT !["category.js"] =
       IF Answered(sources.hotShard) = "failed" THEN View("loadLegacyDataset", @.shown)
       ELSE View("done", renderedList(Answered(sources.hotShard)))]
  /\ UNCHANGED listingLeaves

\* category.js, loadLegacyDataset: posts.json is rendered, or its failure logged
loadLegacyDataset ==
  /\ views["category.js"].step = "loadLegacyDataset"
  /\ views' = [views EXCEPT !["category.js"] =
       IF Answered(sources.legacy) = "failed" THEN View("done", @.shown)
       ELSE View("done", renderedList(Answered(sources.legacy)))]
  /\ UNCHANGED listingLeaves

ListingSources ==
  [loader : BOOLEAN, summary : {"listed", "hollow", "null", "failed"},
   taxonomy : {"ok", "failed"}, hotShard : {"posts", "none", "failed"},
   legacy : {"posts", "none", "failed"}]

InitListing ==
  /\ NoOtherReaders
  /\ resolver = "listings"
  /\ pc = "ready"
  /\ sources \in ListingSources
  /\ views = ("archive.js" :> View("ready", "unrendered"))
               @@ ("part_010" :> View("ready", "unrendered"))
               @@ ("category.js" :> View("taxonomyPromise", "unrendered"))
  /\ world = World(NOWHERE, NOWHERE, 0, FALSE, "missing", FALSE, FALSE)
  /\ slugCandidates = <<RAW_A>>
  /\ scopeHint = SC_ROOT
  /\ Unloaded
  /\ mergeArgs = NULL
  /\ mergeResult = NULL
  /\ NoCallers
  /\ NoIndexes
  /\ NoBatch
  /\ NoVerify
  /\ NoRotation

NextListing ==
  \/ archiveReady
  \/ archiveSummary
  \/ archivePageReady
  \/ archivePageSummary
  \/ taxonomyPromise
  \/ loadHotCategory
  \/ loadLegacyDataset

SpecListing == InitListing /\ [][NextListing]_vars

\* ----------------------------------------------------------------- rotation
\* rotate(retentionWindowDays, paginationSize) of the rotation engine
\* (scripts/rotate_hot_to_archive.py), every write succeeding. Dates and the
\* clock count half days from 1 January of ArchiveYear, 0 being a date that
\* does not parse
TicksPerDay == 2
\* the clock of the runs: 4 February, midnight UTC
RotationNow == (31 + 3) * TicksPerDay

\* the (year, month) of a publish date
publishMonth(date) ==
  [year |-> ArchiveYear, month |-> IF date \div TicksPerDay < 31 THEN 1 ELSE 2]

\* an unparseable date read as the epoch
ageSinceEpoch(item, now) == (now - item.date) \div TicksPerDay
\* the age of an item in whole days (UTC); a date that does not parse gives 0
ageOf(item, now) == IF item.date = 0 THEN 0 ELSE (now - item.date) \div TicksPerDay

\* the identity fingerprint: the first available of id, slug, url, guid,
\* title+date
fingerprintOf(item) ==
  IF Field(item, "id") # EMPTY THEN <<"id", item.id>>
  ELSE IF Field(item, "slug") # EMPTY THEN <<"slug", item.slug>>
  ELSE IF Field(item, "url") # EMPTY THEN <<"url", item.url>>
  ELSE IF Field(item, "guid") # EMPTY THEN <<"guid", item.guid>>
  ELSE <<"title-date", Field(item, "title"), item.date>>

RECURSIVE pickFrom(_, _, _)
\* the items of the list at the positions kept, in list order
pickFrom(items, kept, i) ==
  IF i > Len(items) THEN << >>
  ELSE (IF i \in kept THEN <<items[i]>> ELSE << >>) \o pickFrom(items, kept, i + 1)

\* a hot shard trimmed by its oldest expired item only
keepButOldestExpired(items, now, window) ==
  pickFrom(items, {i \in 1..Len(items) :
                     \/ ageOf(items[i], now) <= window
                     \/ \E j \in 1..Len(items) :
                          /\ ageOf(items[j], now) > window
                          /\ items[j].date < items[i].date \/ (items[j].date = items[i].date /\ j < i)}, 1)
\* step 1: keep (age <= window) and expire (age > window)
keepOf(items, now, window) ==
  pickFrom(items, {i \in 1..Len(items) : ageOf(items[i], now) <= window}, 1)
expireOf(items, now, window) ==
  pickFrom(items, {i \in 1..Len(items) : ageOf(items[i], now) > window}, 1)

\* deduplication by fingerprint: the newest date wins, the earlier entry on a tie
dedupeNewest(items) ==
  pickFrom(items, {i \in 1..Len(items) :
                     \A j \in 1..Len(items) :
                       fingerprintOf(items[j]) = fingerprintOf(items[i])
                         => items[j].date < items[i].date \/ (items[j].date = items[i].date /\ j >= i)}, 1)

RECURSIVE insertNewest(_, _)
insertNewest(sorted, item) ==
  IF sorted = << >> THEN <<item>>
  ELSE IF Head(sorted).date >= item.date THEN <<Head(sorted)>> \o insertNewest(Tail(sorted), item)
  ELSE <<item>> \o sorted
RECURSIVE sortNewestFirst(_)
\* re-sort descending by date
sortNewestFirst(items) ==
  IF items = << >> THEN << >>
  ELSE insertNewest(sortNewestFirst(SubSeq(items, 1, Len(items) - 1)), items[Len(items)])

\* a bucket written over with the new items alone
bucketOverwritten(existing, fresh) == fresh
\* the existing archive shard united with the new items
bucketUnion(existing, fresh) == existing \o fresh

\* step 2: the expired items of a bucket join its archive shard; a bucket
\* without expired items is not written
bucketAfter(existing, fresh) ==
  IF fresh = << >> THEN existing
  ELSE sortNewestFirst(dedupeNewest(bucketUnion(existing, fresh)))

\* the expired items of a scope that belong to a bucket
expiredInto(bucket, items, now, window) ==
  pickFrom(expireOf(items, now, window),
           {i \in 1..Len(expireOf(items, now, window)) :
              publishMonth(expireOf(items, now, window)[i].date) = [year |-> bucket.year, month |-> bucket.month]}, 1)

rotatedHot(hot, now, window) == [sc \in DOMAIN hot |-> keepOf(hot[sc], now, window)]
rotatedArchive(hot, archive, now, window) ==
  [b \in DOMAIN archive |-> bucketAfter(archive[b], expiredInto(b, hot[b.scope], now, window))]

\* step 4: the manifests and the Summary rebuilt from the shards as written
rebuiltIndexes(hot, archive) ==
  [hotManifest |-> {[scope |-> sc, items |-> Len(hot[sc])] : sc \in {x \in DOMAIN hot : hot[x] # << >>}},
   archiveManifest |-> {[bucket |-> b, items |-> Len(archive[b])] : b \in {x \in DOMAIN archive : archive[x] # << >>}},
   summary |-> [sc \in DOMAIN hot |-> {[year |-> b.year, month |-> b.month] : b \in {x \in DOMAIN archive : x.scope = sc /\ archive[x] # << >>}}]]

\* one rotation pass over every scope of the hot tier
rotate ==
  /\ pc = "rotate"
  /\ Len(snapshots) <= MaxPasses
  /\ hotTier' = rotatedHot(hotTier, RotationNow, RetentionDays)
  /\ archiveTier' = rotatedArchive(hotTier, archiveTier, RotationNow, RetentionDays)
  /\ indexFiles' = rebuiltIndexes(hotTier', archiveTier')
  /\ snapshots' = Append(snapshots, [hot |-> hotTier', archive |-> archiveTier'])
  /\ UNCHANGED <<resolverVars, clientVars, verifyVars, listingVars, readerVars, pc>>

\* publish dates: not parseable, of today, a window old to the day, a day
\* older than the window, of January
D_FRESH == RotationNow - 1
D_EDGE == RotationNow - (RetentionDays * TicksPerDay) - 1
D_PAST == RotationNow - ((RetentionDays + 1) * TicksPerDay)
D_OLD == 20 * TicksPerDay
D_OLDER == 10 * TicksPerDay
HotItems ==
  {[id |-> <<"1">>, date |-> d] : d \in {0, D_FRESH, D_EDGE, D_PAST, D_OLD}}
    \cup {[slug |-> <<"s">>, date |-> d] : d \in {0, D_FRESH, D_EDGE, D_PAST, D_OLD}}
RotationScopes == {SC_EU, SC_ROOT}
Buckets == {[scope |-> sc, year |-> ArchiveYear, month |-> m] : sc \in RotationScopes, m \in 1..2}
January(sc) == [scope |-> sc, year |-> ArchiveYear, month |-> 1]

InitRotate ==
  /\ NoOtherReaders
  /\ \E shard \in UNION {[1..n -> HotItems] : n \in 0..MaxHot}, other \in {<< >>, <<[slug |-> <<"s">>, date |-> D_OLD]>>} :
       hotTier = (SC_EU :> shard) @@ (SC_ROOT :> other)
  /\ \E shard \in {<< >>, <<[id |-> <<"1">>, date |-> D_OLDER]>>, <<[id |-> <<"1">>, date |-> D_OLD], [id |-> <<"2">>, date |-> D_OLDER]>>} :
       archiveTier = [b \in Buckets |-> IF b = January(SC_EU) THEN shard ELSE << >>]
  /\ indexFiles = rebuiltIndexes(hotTier, archiveTier)
  /\ snapshots = <<[hot |-> hotTier, archive |-> archiveTier]>>
  /\ resolver = "rotate_hot_to_archive"
  /\ pc = "rotate"
  /\ NoVerify
  /\ NoListing
  /\ NoPage

NextRotate == rotate

SpecRotate == InitRotate /\ [][NextRotate]_vars


\* ------------------------------------------------------------- shard payloads
\* fetchHotShard / fetchArchiveShard of part_008 and of category.js answered
\* with a payload whose items may share a slug
sortPosts(posts) == sortPostsByDate(posts)
\* the then-handler of the shard requests of category.js
categoryShardItems(payload) == sortPosts(normalizePostsPayload(payload))
\* the then-handler of the script that asks
thenOfShard(payload) ==
  IF resolver = "category.js" THEN categoryShardItems(payload) ELSE shardItems(payload)

handHotShard ==
  /\ pc = "fetchHotShard"
  /\ handed' = [by |-> "fetchHotShard", items |-> thenOfShard(shardFile)]
  /\ pc' = "handed"
  /\ UNCHANGED <<resolverVars, clientVars, verifyVars, listingVars, rotationVars, fetchAside, shardFile>>

handArchiveShard ==
  /\ pc = "fetchArchiveShard"
  /\ handed' = [by |-> "fetchArchiveShard", items |-> thenOfShard(shardFile)]
  /\ pc' = "handed"
  /\ UNCHANGED <<resolverVars, clientVars, verifyVars, listingVars, rotationVars, fetchAside, shardFile>>

FEB == ArchiveYear * 100 + 2
ShardSlugs == {<<"a">>, <<"A">>, <<"b">>, <<"!">>}
ShardPosts ==
  {[slug |-> sl, date |-> d] : sl \in ShardSlugs, d \in {0, FEB}}
    \cup {[title |-> <<"a">>, date |-> FEB]}
ShardFiles == {[items |-> l] : l \in UNION {[1..n -> ShardPosts] : n \in 0..MaxShardItems}}

InitFetch ==
  /\ NoCategory
  /\ NoFeed
  /\ NoSubcategory
  /\ NoScope
  /\ resolver \in {"part_008", "category.js"}
  /\ pc \in {"fetchHotShard", "fetchArchiveShard"}
  /\ shardFile \in ShardFiles
  /\ handed = NULL
  /\ NoPage
  /\ NoVerify
  /\ NoListing
  /\ NoRotation

NextFetch ==
  \/ handHotShard
  \/ handArchiveShard

SpecFetch == InitFetch /\ [][NextFetch]_vars

\* ------------------------------------------------------------ listing scopes
\* category.js: the category of the page address, the taxonomy mapping and
\* the scope resolveScopeFromSlug derives from them
DEFAULT_SCOPE == Scope(INDEX, INDEX)

\* getCatSub: the sub parameter, when it names something, stands for the category
getCatSub(params) ==
  IF slugify(params.sub) # EMPTY THEN slugify(params.sub) ELSE slugify(params.cat)

RECURSIVE firstGroup(_)
\* the first entry of group that slugifies to something
firstGroup(group) ==
  IF group = << >> THEN EMPTY
  ELSE IF slugify(Head(group)) # EMPTY THEN slugify(Head(group))
  ELSE firstGroup(Tail(group))

registerCategoryParent(lookup, entry) ==
  LET slug == slugify(entry.slug)
      parent == IF firstGroup(entry.group) = EMPTY THEN slug ELSE firstGroup(entry.group)
      child == IF parent = slug THEN INDEX ELSE slug
      withParent == IF parent \in DOMAIN lookup THEN lookup
                    ELSE CachePut(lookup, parent, Scope(parent, INDEX))
      withSlug == CachePut(withParent, slug, Scope(parent, child))
  IN IF slug = EMPTY THEN lookup
     ELSE IF contains(entry.slug, "/") /\ slug \notin DOMAIN withSlug
          THEN CachePut(withSlug, slug, Scope(parent, child))
          ELSE withSlug

RECURSIVE populateCategoryLookup(_, _)
populateCategoryLookup(lookup, categories) ==
  IF categories = << >> THEN lookup
  ELSE populateCategoryLookup(registerCategoryParent(lookup, Head(categories)), Tail(categories))

resolveScopeFromSlug(lookup, slug) ==
  LET normalized == slugify(slug)
      parts == split(normalized, "/")
  IN IF slug = EMPTY \/ normalized = EMPTY THEN DEFAULT_SCOPE
     ELSE IF normalized \in DOMAIN lookup
          THEN Scope(OrIndex(lookup[normalized].parent), OrIndex(lookup[normalized].child))
     ELSE IF contains(normalized, "/")
          THEN Scope(OrIndex(parts[1]), OrIndex(parts[Len(parts)]))
     ELSE Scope(normalized, INDEX)

\* taxonomyPromise: the then-handler fills the mapping, the catch-handler
\* leaves it as it is
taxonomyLoaded ==
  /\ pc = "taxonomyPromise"
  /\ \E ok \in BOOLEAN :
       CATEGORY_PARENT_LOOKUP' =
         IF ok THEN populateCategoryLookup(CATEGORY_PARENT_LOOKUP, taxonomyFile.categories)
         ELSE CATEGORY_PARENT_LOOKUP
  /\ pc' = "loadHotCategory"
  /\ UNCHANGED <<resolverVars, clientVars, verifyVars, listingVars, rotationVars, scopeAside, urlParams, taxonomyFile, listingScope>>

\* the first statement of loadHotCategory
scopeResolved ==
  /\ pc = "loadHotCategory"
  /\ listingScope' = resolveScopeFromSlug(CATEGORY_PARENT_LOOKUP, getCatSub(urlParams))
  /\ pc' = "resolved"
  /\ UNCHANGED <<resolverVars, clientVars, verifyVars, listingVars, rotationVars, scopeAside, urlParams, taxonomyFile, CATEGORY_PARENT_LOOKUP>>

TaxonomyEntries ==
  {[slug |-> EU, group |-> <<NEWS>>], [slug |-> NEWS, group |-> << >>],
   [slug |-> CAT_EU, group |-> <<NEWS>>], [slug |-> ASIA, group |-> <<EMPTY, NEWS>>]}
CatParams == {EMPTY, NEWS, EU, CAT_EU, CAT_ASIA, <<"N", "e", "w", "s">>, <<"!">>}

InitScope ==
  /\ NoCategory
  /\ NoFeed
  /\ NoSubcategory
  /\ resolver = "category.js"
  /\ pc = "taxonomyPromise"
  /\ urlParams \in [cat : CatParams, sub : {EMPTY, EU}]
  /\ taxonomyFile \in {[categories |-> l] : l \in UNION {[1..n -> TaxonomyEntries] : n \in 0..MaxCategories}}
  /\ CATEGORY_PARENT_LOOKUP = CachePut(NoCache, INDEX, Scope(INDEX, INDEX))
  /\ listingScope = NULL
  /\ NoPage
  /\ NoVerify
  /\ NoListing
  /\ NoRotation
  /\ NoFetch

NextScope ==
  \/ taxonomyLoaded
  \/ scopeResolved

SpecScope == InitScope /\ [][NextScope]_vars

\* ------------------------------------------------------- feed subcategories
\* data-loader.js: the subcategory initCategoryFeed reads for its feed
\* slugifySegment: lower-case, runs of other characters than a-z and 0-9 become
\* one hyphen, hyphens at both ends go
slugifySegment(value) == stripHyphens(collapseNonWord(lowerText(value), FALSE))

RECURSIVE cleanedSegments(_)
\* the loop of normalizeSlug over the segments: empty parts are left out
cleanedSegments(segments) ==
  IF segments = << >> THEN << >>
  ELSE IF slugifySegment(Head(segments)) # EMPTY
       THEN <<slugifySegment(Head(segments))>> \o cleanedSegments(Tail(segments))
       ELSE cleanedSegments(Tail(segments))

RECURSIVE join(_, _)
\* Array.prototype.join
join(parts, sep) ==
  IF parts = << >> THEN EMPTY
  ELSE IF Len(parts) = 1 THEN Head(parts)
  ELSE Head(parts) \o <<sep>> \o join(Tail(parts), sep)

\* /^[a-z0-9]+(?:-[a-z0-9]+)*$/.test(s)
IsPlainSlug(s) ==
  /\ s # EMPTY
  /\ \A i \in 1..Len(s) : IsWordChar(s[i]) \/ s[i] = "-"
  /\ s[1] # "-" /\ s[Len(s)] # "-"
  /\ \A i \in 1..(Len(s) - 1) : ~(s[i] = "-" /\ s[i + 1] = "-")

normalizeSlug(value) ==
  LET lowered == lowerText(trim(value))
  IN IF trim(value) = EMPTY THEN EMPTY
     ELSE IF contains(lowered, "/") THEN join(cleanedSegments(split(lowered, "/")), "/")
     ELSE IF IsPlainSlug(lowered) THEN lowered
     ELSE slugifySegment(lowered)

\* readSubcategorySlug as the script runs it: of its two declarations in the
\* same function body the later one is the function that is called
readSubcategorySlug(section, params) ==
  normalizeSlug(Or(Or(params.sub, params.subcategory), section.subcategory))

\* initCategoryFeed reading the subcategory of the feed
readSubcategory ==
  /\ pc = "initCategoryFeed"
  /\ subcategoryRead' = readSubcategorySlug(sectionData, locationSearch)
  /\ pc' = "fetchCategoryIndex"
  /\ UNCHANGED <<resolverVars, clientVars, verifyVars, listingVars, rotationVars, subcategoryAside, locationSearch, sectionData>>

CAT_NESTED == <<"n", "e", "w", "s", "/", "a", "/", "b">>
CAT_DEEP == <<"n", "/", "e", "/", "a", "/", "b">>
SubParams == {EMPTY, <<"E", "u">>, <<"A", " ", "b">>}
SubcategoryAttrs == {EMPTY, ASIA, CAT_ASIA, <<"N", " ", "e">>}

InitSubcategory ==
  /\ NoCategory
  /\ NoFeed
  /\ resolver = "data-loader.js"
  /\ pc = "initCategoryFeed"
  /\ locationSearch \in [sub : SubParams, subcategory : {EMPTY, ASIA}, cat : {EMPTY, NEWS, CAT_EU, CAT_NESTED, CAT_DEEP}]
  /\ sectionData \in [subcategory : SubcategoryAttrs]
  /\ subcategoryRead = NULL
  /\ NoPage
  /\ NoVerify
  /\ NoListing
  /\ NoRotation
  /\ NoFetch
  /\ NoScope

NextSubcategory == readSubcategory

SpecSubcategory == InitSubcategory /\ [][NextSubcategory]_vars

\* ------------------------------------------------------------ category feed
\* data-loader.js: initCategoryFeed has built categoryState, disabled the
\* button and asked for the category index; the queue of archive entries is
\* walked by the load-more button
MAX_CATEGORY_ARCHIVE_DAYS == 5

\* extractPosts
extractPosts(payload) ==
  IF IsNull(payload) THEN << >>
  ELSE IF "posts" \in DOMAIN payload THEN payload.posts
  ELSE IF "items" \in DOMAIN payload THEN payload.items
  ELSE << >>

\* the entry limitArchiveQueue keeps for a raw entry: year, month and a day of 1..31
normalizedEntry(entry) ==
  IF Num(entry, "day") \in 1..31
  THEN [year |-> entry.year, month |-> entry.month, day |-> entry.day]
  ELSE [year |-> entry.year, month |-> entry.month]

RECURSIVE limitFrom(_, _)
limitFrom(entries, limited) ==
  IF entries = << >> \/ Len(limited) >= MAX_CATEGORY_ARCHIVE_DAYS THEN limited
  ELSE IF Num(Head(entries), "year") = 0 \/ Num(Head(entries), "month") = 0
       THEN limitFrom(Tail(entries), limited)
  ELSE IF \E i \in 1..Len(limited) : limited[i] = normalizedEntry(Head(entries))
       THEN limitFrom(Tail(entries), limited)
  ELSE limitFrom(Tail(entries), Append(limited, normalizedEntry(Head(entries))))

\* limitArchiveQueue: entries without year or month and repeated entries go,
\* MAX_CATEGORY_ARCHIVE_DAYS entries at most are kept
limitArchiveQueue(entries) == limitFrom(entries, << >>)

\* extractArchiveQueue of a payload whose archive entries carry no days list
extractArchiveQueue(payload) ==
  IF IsNull(payload) THEN << >>
  ELSE limitArchiveQueue((IF "archive" \in DOMAIN payload THEN payload.archive ELSE << >>)
                           \o (IF "months" \in DOMAIN payload THEN payload.months ELSE << >>))

\* parts[parts.length - 1]
LastOf(parts) == parts[Len(parts)]

\* matchesSlug
matchesSlug(candidate, target) ==
  /\ normalizeSlug(candidate) # EMPTY
  /\ normalizeSlug(target) # EMPTY
  /\ \/ normalizeSlug(candidate) = normalizeSlug(target)
     \/ LastOf(split(normalizeSlug(candidate), "/")) = LastOf(split(normalizeSlug(target), "/"))

RECURSIVE monthsOfParents(_, _)
\* appendMonths over the parents of the summary that match the slug
monthsOfParents(parents, slug) ==
  IF parents = << >> THEN << >>
  ELSE (IF matchesSlug(Head(parents).slug, slug)
        THEN [i \in 1..Len(Head(parents).months) |->
                [year |-> Num(Head(parents).months[i], "year"),
                 month |-> Num(Head(parents).months[i], "month")]]
        ELSE << >>) \o monthsOfParents(Tail(parents), slug)

findArchiveMonths(summary, slug) ==
  IF IsNull(summary) \/ normalizeSlug(slug) = EMPTY THEN << >>
  ELSE limitArchiveQueue(monthsOfParents(summary.parents, slug))

RECURSIVE appendFrom(_, _, _)
\* the loop of appendPosts: the keys of the Deduper and the nodes of the list
\* after the posts that are left
appendFrom(posts, known, nodes) ==
  IF posts = << >> THEN [seen |-> known, nodes |-> nodes]
  ELSE appendFrom(Tail(posts), addSeen(keysFor(Head(posts)), known),
                  IF addReturns(keysFor(Head(posts)), known)
                  THEN Append(nodes, Head(posts)) ELSE nodes)

\* appendPosts: the list is emptied on the first call, empty-state lines go,
\* and every post the Deduper lets through gets a node
appendPosts(state, list, posts) ==
  appendFrom(posts, state.deduper, IF state.initialised THEN list.nodes ELSE << >>)

updateLoadMoreButton(state) ==
  IF state.isLoading THEN [disabled |-> TRUE, busy |-> TRUE]
  ELSE [disabled |-> state.queue = << >>, busy |-> FALSE]

\* what the files of the feed may hold
JAN == [year |-> ArchiveYear, month |-> 1]
FEB_3 == [year |-> ArchiveYear, month |-> 2, day |-> 3]
MARCH == [year |-> ArchiveYear, month |-> 3]
UNDATED == [year |-> 0, month |-> 1]
RawEntries == {JAN, FEB_3, MARCH, UNDATED}
RawQueues == UNION {[1..n -> RawEntries] : n \in 0..MaxArchiveEntries}
POST_1 == [id |-> <<"1">>, slug |-> <<"a">>]
POST_B == [slug |-> <<"b">>]
POST_U == [slug |-> <<"A">>, url |-> <<"u">>]
POST_BARE == [excerpt |-> <<"x">>]
CategoryPayloads ==
  {[posts |-> p, archive |-> q] : p \in {<< >>, <<POST_1>>, <<POST_B, POST_BARE>>}, q \in RawQueues}
BatchPayloads ==
  {[items |-> p] : p \in {<< >>, <<POST_1, POST_B>>, <<POST_U>>, <<POST_BARE>>}} \cup {NULL}
ArchiveSummaries ==
  {NULL} \cup {[parents |-> <<[slug |-> NEWS, months |-> q]>>] : q \in {<< >>, <<JAN>>, <<FEB_3, JAN>>}}

\* the events of the feed
QueueSet(entries) == [kind |-> "queue", entries |-> entries]
BatchTaken(entry) == [kind |-> "taken", entry |-> entry]
BatchAsked(entry, n) == [kind |-> "request", entry |-> entry, index |-> n]
BatchSettled(entry, ok, offered, added) ==
  [kind |-> "settled", entry |-> entry, ok |-> ok, offered |-> offered, added |-> added]

feedLeaves == <<resolverVars, clientVars, verifyVars, listingVars, rotationVars, feedAside>>

\* the state and the list after appendPosts
stateAfterAppend(state, appended) ==
  [state EXCEPT !.deduper = appended.seen, !.initialised = TRUE]

\* fetchCategoryIndex settles: handleCategoryPayload, or the catch-handler of
\* initCategoryFeed
categoryIndexSettled ==
  /\ pc = "fetchCategoryIndex"
  /\ pc' = "feed"
  /\ \E ok \in BOOLEAN, payload \in CategoryPayloads :
       LET appended == appendPosts(categoryState, postList, extractPosts(payload))
           added == Len(appended.nodes)
           directQueue == extractArchiveQueue(payload)
           loaded == stateAfterAppend(categoryState, appended)
       IN IF ok
          THEN /\ postList' = [nodes |-> appended.nodes, empty |-> added = 0]
               /\ statusEl' = IF added = 0 THEN "No posts found for this category"
                              ELSE "Loaded posts."
               /\ categoryState' = IF directQueue # << >>
                                   THEN [loaded EXCEPT !.queue = directQueue] ELSE loaded
               /\ loadMoreButton' = IF directQueue # << >>
                                    THEN updateLoadMoreButton(categoryState')
                                    ELSE loadMoreButton
               /\ summaryWanted' = (directQueue = << >>)
               /\ feedLog' = IF directQueue # << >>
                             THEN Append(feedLog, QueueSet(directQueue)) ELSE feedLog
          ELSE /\ postList' = [postList EXCEPT !.empty = TRUE]
               /\ statusEl' = "We could not load posts for this category."
               /\ loadMoreButton' = [loadMoreButton EXCEPT !.disabled = TRUE]
               /\ UNCHANGED <<categoryState, summaryWanted, feedLog>>
  /\ UNCHANGED <<feedLeaves, inflight, clicks>>

\* the then-handler of getArchiveSummary in handleCategoryPayload
archiveSummarySettled ==
  /\ pc = "feed"
  /\ summaryWanted
  /\ summaryWanted' = FALSE
  /\ \E summary \in ArchiveSummaries :
       LET months == findArchiveMonths(summary, categoryState.slug)
       IN IF IsNull(summary)
          THEN UNCHANGED <<categoryState, loadMoreButton, feedLog>>
          ELSE /\ categoryState' = IF months # << >>
                                   THEN [categoryState EXCEPT !.queue = months]
                                   ELSE categoryState
               /\ loadMoreButton' = updateLoadMoreButton(categoryState')
               /\ feedLog' = IF months # << >>
                             THEN Append(feedLog, QueueSet(months)) ELSE feedLog
  /\ UNCHANGED <<feedLeaves, pc, statusEl, postList, inflight, clicks>>

\* a handler that takes every click
neverBusy(state) == FALSE
\* the guard at the head of handleLoadMore
busyOf(state) == state.isLoading

\* state.queue.pop()
popQueue(entries) == [next |-> entries[Len(entries)], rest |-> SubSeq(entries, 1, Len(entries) - 1)]
\* state.queue.shift()
shiftQueue(entries) == [next |-> Head(entries), rest |-> Tail(entries)]

\* the number of URLs fetchArchiveBatch tries for an entry
fetchersOf(entry) == IF Num(entry, "day") \in 1..31 THEN 4 ELSE 2

\* a click on the button: handleLoadMore up to the call of fetchArchiveBatch,
\* whose first request goes out
handleLoadMore ==
  /\ pc = "feed"
  /\ clicks.total < MaxClicks
  /\ clicks' = [total |-> clicks.total + 1,
                loading |-> clicks.loading + (IF categoryState.isLoading THEN 1 ELSE 0)]
  /\ IF busyOf(categoryState)
     THEN UNCHANGED <<categoryState, loadMoreButton, statusEl, inflight, feedLog>>
     ELSE IF categoryState.queue = << >>
     THEN /\ statusEl' = "No additional posts to load."
          /\ loadMoreButton' = updateLoadMoreButton(categoryState)
          /\ UNCHANGED <<categoryState, inflight, feedLog>>
     ELSE /\ categoryState' = [categoryState EXCEPT
                                 !.queue = shiftQueue(categoryState.queue).rest,
                                 !.isLoading = TRUE]
          /\ loadMoreButton' = updateLoadMoreButton(categoryState')
          /\ inflight' = inflight \cup
               {[entry |-> shiftQueue(categoryState.queue).next, index |-> 0]}
          /\ feedLog' = feedLog \o <<BatchTaken(shiftQueue(categoryState.queue).next),
                                     BatchAsked(shiftQueue(categoryState.queue).next, 0)>>
          /\ UNCHANGED statusEl
  /\ UNCHANGED <<feedLeaves, pc, postList, summaryWanted>>

\* isLoading left as it is after a failure
loadingAfterError(hadError) == hadError
\* isLoading as the last then-handler of handleLoadMore leaves it
loadingAfter(hadError) == FALSE

\* a request of fetchArchiveBatch settles: after a failure the next URL is
\* tried; with a payload, or after the last URL, the handlers of
\* handleLoadMore run
archiveBatchSettled ==
  /\ pc = "feed"
  /\ \E f \in inflight, ok \in BOOLEAN, payload \in BatchPayloads :
       LET appended == appendPosts(categoryState, postList, extractPosts(payload))
           added == Len(appended.nodes) - (IF categoryState.initialised THEN Len(postList.nodes) ELSE 0)
           settled == [(IF ok THEN stateAfterAppend(categoryState, appended) ELSE categoryState)
                         EXCEPT !.isLoading = loadingAfter(~ok)]
       IN IF ~ok /\ f.index + 1 < fetchersOf(f.entry)
          THEN /\ inflight' = (inflight \ {f}) \cup {[f EXCEPT !.index = f.index + 1]}
               /\ feedLog' = Append(feedLog, BatchAsked(f.entry, f.index + 1))
               /\ UNCHANGED <<categoryState, loadMoreButton, statusEl, postList>>
          ELSE /\ inflight' = inflight \ {f}
               /\ categoryState' = settled
               /\ postList' = IF ok THEN [nodes |-> appended.nodes, empty |-> added = 0]
                              ELSE postList
               /\ loadMoreButton' = updateLoadMoreButton(settled)
               /\ statusEl' = IF ok /\ settled.queue = << >>
                              THEN "You have reached the end of the archive."
                              ELSE IF ~ok THEN "Could not load more posts at this time."
                              ELSE IF added = 0 THEN "No archived posts found."
                              ELSE "Loaded posts from the archive."
               /\ feedLog' = Append(feedLog,
                    BatchSettled(f.entry, ok, IF ok THEN Len(extractPosts(payload)) ELSE 0,
                            IF ok THEN added ELSE 0))
  /\ UNCHANGED <<feedLeaves, pc, summaryWanted, clicks>>

InitFeed ==
  /\ NoCategory
  /\ resolver = "data-loader.js"
  /\ pc = "fetchCategoryIndex"
  /\ categoryState = [slug |-> NEWS, queue |-> << >>, isLoading |-> FALSE, deduper |-> {},
                      initialised |-> FALSE]
  /\ loadMoreButton = updateLoadMoreButton(categoryState)
  /\ statusEl = "Loading posts"
  /\ postList = [nodes |-> << >>, empty |-> FALSE]
  /\ inflight = {}
  /\ summaryWanted = FALSE
  /\ clicks = [total |-> 0, loading |-> 0]
  /\ feedLog = << >>
  /\ NoPage
  /\ NoVerify
  /\ NoListing
  /\ NoRotation
  /\ NoFetch
  /\ NoScope
  /\ NoSubcategory

NextFeed ==
  \/ categoryIndexSettled
  \/ archiveSummarySettled
  \/ handleLoadMore
  \/ archiveBatchSettled

SpecFeed == InitFeed /\ [][NextFeed]_vars

\* every request that is out is answered or fails in the end
SpecFeedLive == SpecFeed /\ WF_vars(archiveBatchSettled)

\* ------------------------------------------------------------ category page
\* category.js: loadHotCategory reads the hot shard of the scope, walks the
\* archive months of the summary until enough posts are collected, and
\* renderCategoryDataset shows one page of the combined list
DEFAULT_PER_PAGE == 12

\* the last segment of a text with a slash, nothing for a text without one
lastSegmentOf(text) ==
  IF contains(text, "/") THEN split(text, "/")[Len(split(text, "/"))] ELSE EMPTY

\* resolvePostCategorySlugs: the slugs of category_slug, subcategory and
\* category and of their last segments (as a set: the callers only ask
\* whether a slug is among them)
resolvePostCategorySlugs(post) ==
  IF IsNull(post) THEN {}
  ELSE {slugify(trim(v)) :
          v \in {Field(post, "category_slug"), lastSegmentOf(Field(post, "category_slug")),
                 Field(post, "subcategory"), lastSegmentOf(Field(post, "subcategory")),
                 Field(post, "category"), lastSegmentOf(Field(post, "category"))}} \ {EMPTY}

\* matchesScope of category.js, given the scope's parent and child
categoryScopeMatch(post, parent, child, lookup) ==
  IF parent = INDEX /\ child = INDEX THEN TRUE
  ELSE IF child # INDEX
       THEN \/ (getPostChildSlug(post) # EMPTY /\ getPostChildSlug(post) = child)
            \/ child \in resolvePostCategorySlugs(post)
  ELSE IF parent = INDEX THEN TRUE
  ELSE \/ (getPostParentSlug(post) # EMPTY /\ getPostParentSlug(post) = parent)
       \/ \E s \in resolvePostCategorySlugs(post) :
            s \in DOMAIN lookup /\ lookup[s].parent = parent

categoryMatchesScope(post, scope, lookup) ==
  IF IsNull(post) THEN FALSE
  ELSE IF IsNull(scope) THEN TRUE
  ELSE categoryScopeMatch(post, OrIndex(Field(scope, "parent")), OrIndex(Field(scope, "child")),
                          lookup)

categoryFilterPostsByScope(posts, scope, lookup) ==
  SelectSeq(posts, LAMBDA post : categoryMatchesScope(post, scope, lookup))

\* Math.ceil(totalItems / perPage)
pagesOf(totalItems, perPage) == (totalItems + perPage - 1) \div perPage

computePerPage(hotIndex, archiveIndex) ==
  IF Num(hotIndex, "per_page") > 0 THEN hotIndex.per_page
  ELSE IF Num(archiveIndex, "per_page") > 0 THEN archiveIndex.per_page
  ELSE DEFAULT_PER_PAGE

\* the items count of the scope's entry in a summary, 0 without one
itemsOfEntry(entry) == IF IsNull(entry) THEN 0 ELSE Num(entry, "items")

computeTotalItems(hotIndex, archiveIndex, scope, fallbackCount) ==
  LET total == itemsOfEntry(findChildSummary(hotIndex, scope.parent, scope.child))
                 + itemsOfEntry(findChildSummary(archiveIndex, scope.parent, scope.child))
  IN IF total = 0 /\ fallbackCount > 0 THEN fallbackCount ELSE total

\* resolveRequestedPage: the page parameter (0: none or not a number),
\* at most the last page
resolveRequestedPage(totalPages, pageParam) ==
  LET asked == IF pageParam > 0 THEN pageParam ELSE 1
  IN IF totalPages > 0 /\ asked > totalPages THEN totalPages ELSE asked

\* the months loadAdditionalArchivePosts walks: those of the scope's entry
monthsToWalk(archiveIndex, scope) ==
  IF IsNull(archiveIndex) \/ IsNull(scope) THEN << >>
  ELSE IF IsNull(findChildSummary(archiveIndex, scope.parent, scope.child)) THEN << >>
  ELSE Field(findChildSummary(archiveIndex, scope.parent, scope.child), "months")

\* the posts of a page as renderCategoryDataset cuts them out
pageSlice(filtered, pageNo, perPage) ==
  SubSeq(filtered, (pageNo - 1) * perPage + 1,
         IF pageNo * perPage < Len(filtered) THEN pageNo * perPage ELSE Len(filtered))

\* the page renderCategoryDataset shows for a dataset
renderCategoryDataset(dataset) ==
  LET perPage == IF dataset.perPage <= 0 THEN DEFAULT_PER_PAGE ELSE dataset.perPage
      totalItems == IF dataset.totalItems < Len(dataset.filtered) THEN Len(dataset.filtered)
                    ELSE dataset.totalItems
      totalPages == dataset.totalPages
      asked == IF dataset.page # 0 THEN dataset.page
               ELSE resolveRequestedPage(totalPages, categorySite.pageParam)
      clamped == IF totalPages > 0 /\ asked > totalPages THEN totalPages ELSE asked
      pageNo == IF clamped < 1 THEN 1 ELSE clamped
  IN [pagedPosts |-> pageSlice(dataset.filtered, pageNo, perPage), page |-> pageNo,
      perPage |-> perPage, totalItems |-> totalItems, totalPages |-> totalPages,
      from |-> dataset.from]

\* the taxonomy of the site as populateCategoryLookup has stored it
CategoryTaxonomy == <<[slug |-> NEWS, group |-> << >>], [slug |-> EU, group |-> <<NEWS>>]>>
CategoryLookup ==
  populateCategoryLookup(CachePut(NoCache, INDEX, Scope(INDEX, INDEX)), CategoryTaxonomy)

\* the scope of the page
scopeOfPage == resolveScopeFromSlug(CategoryLookup, categorySite.cat)

\* the number of posts the walk wants: those up to the end of the page
targetCountOf(pageNo, perPage) ==
  IF pageNo * perPage < perPage THEN perPage ELSE pageNo * perPage

\* the closure after the hot shard has arrived
walkFrom(sortedHot, perPage, totalItems, hotIndex, archiveIndex) ==
  LET items == IF totalItems = 0 /\ sortedHot # << >> THEN Len(sortedHot) ELSE totalItems
      totalPages == pagesOf(items, perPage)
      pageNo == resolveRequestedPage(totalPages, categorySite.pageParam)
  IN [sortedHot |-> sortedHot, perPage |-> perPage, totalItems |-> items,
      totalPages |-> totalPages, page |-> pageNo,
      targetCount |-> targetCountOf(pageNo, perPage),
      months |-> monthsToWalk(archiveIndex, scopeOfPage),
      position |-> 0, collected |-> << >>]

categoryLeaves == <<resolverVars, clientVars, verifyVars, listingVars, rotationVars, categoryAside>>

\* loadHotCategory: the summaries have settled (null for one that failed) and
\* the hot shard of the scope is answered, or fails and the legacy list is
\* asked for
hotCategorySettled ==
  /\ pc = "loadHotCategory"
  /\ \E ok \in BOOLEAN :
       IF ok /\ ~IsNull(categorySite.hot)
       THEN /\ archiveWalk' =
                 LET sortedHot == sortPosts(categoryFilterPostsByScope(
                                    categoryShardItems(categorySite.hot), scopeOfPage,
                                    CategoryLookup))
                     perPage == computePerPage(categorySite.hotSummary, categorySite.archiveSummary)
                 IN walkFrom(sortedHot, perPage,
                             computeTotalItems(categorySite.hotSummary,
                                               categorySite.archiveSummary, scopeOfPage,
                                               Len(sortedHot)),
                             categorySite.hotSummary, categorySite.archiveSummary)
            /\ pc' = "next"
       ELSE /\ archiveWalk' = archiveWalk
            /\ pc' = "loadLegacyDataset"
  /\ UNCHANGED <<categoryLeaves, categorySite, categoryPage, shardLog>>

\* next() goes on: fewer posts than wanted, and a month is left
walkGoesOn(walk) ==
  /\ Len(walk.sortedHot) + Len(walk.collected) < walk.targetCount
  /\ walk.position < Len(walk.months)

\* the shard file of a month of the scope (NULL: there is none)
monthFile(info) ==
  IF Num(info, "month") \in DOMAIN categorySite.archive THEN categorySite.archive[info.month]
  ELSE NULL

\* next() of loadAdditionalArchivePosts: the following month is asked for;
\* its posts are added to those collected, a failure is only logged
archiveMonthSettled ==
  /\ pc = "next"
  /\ walkGoesOn(archiveWalk)
  /\ \E ok \in BOOLEAN :
       LET info == archiveWalk.months[archiveWalk.position + 1]
           answered == ok /\ ~IsNull(monthFile(info))
       IN /\ archiveWalk' =
               [archiveWalk EXCEPT !.position = @ + 1,
                                   !.collected = IF answered
                                                 THEN @ \o categoryShardItems(monthFile(info))
                                                 ELSE @]
          /\ shardLog' = Append(shardLog, [month |-> info.month, ok |-> answered])
  /\ UNCHANGED <<categoryLeaves, pc, categorySite, categoryPage>>

\* the posts loadHotCategory combines
combinedOf(walk) ==
  dedupePosts(sortPosts(walk.sortedHot
                          \o categoryFilterPostsByScope(walk.collected, scopeOfPage,
                                                        CategoryLookup)))

\* the dataset loadHotCategory hands to renderCategoryDataset
hotDataset(walk, posts) ==
  LET counted == walk.totalItems # 0
      totalItems == IF counted THEN walk.totalItems ELSE Len(posts)
      totalPages == IF counted THEN walk.totalPages ELSE pagesOf(totalItems, walk.perPage)
  IN [filtered |-> posts, perPage |-> walk.perPage, totalItems |-> totalItems,
      totalPages |-> totalPages,
      page |-> IF counted THEN walk.page
               ELSE resolveRequestedPage(totalPages, categorySite.pageParam),
      from |-> "hot"]

\* next() resolves with the posts collected and the page is rendered
categoryRendered ==
  /\ pc = "next"
  /\ ~walkGoesOn(archiveWalk)
  /\ categoryPage' = renderCategoryDataset(hotDataset(archiveWalk, combinedOf(archiveWalk)))
  /\ pc' = "rendered"
  /\ UNCHANGED <<categoryLeaves, categorySite, archiveWalk, shardLog>>

\* the dataset of loadLegacyDataset
legacyDataset(all, cat) ==
  LET filtered == sortPosts(IF cat # EMPTY
                            THEN SelectSeq(all, LAMBDA p : cat \in resolvePostCategorySlugs(p))
                            ELSE all)
  IN [filtered |-> filtered, perPage |-> DEFAULT_PER_PAGE, totalItems |-> Len(filtered),
      totalPages |-> pagesOf(Len(filtered), DEFAULT_PER_PAGE),
      page |-> resolveRequestedPage(pagesOf(Len(filtered), DEFAULT_PER_PAGE),
                                    categorySite.pageParam),
      from |-> "legacy"]

\* loadLegacyDataset after the hot category failed: the legacy list is
\* filtered by the category and rendered; a failure is only logged
legacyDatasetLoaded ==
  /\ pc = "loadLegacyDataset"
  /\ \E ok \in BOOLEAN :
       categoryPage' = IF ok THEN renderCategoryDataset(
                                    legacyDataset(normalizePostsPayload(categorySite.legacy),
                                                  categorySite.cat))
                       ELSE categoryPage
  /\ pc' = "rendered"
  /\ UNCHANGED <<categoryLeaves, categorySite, archiveWalk, shardLog>>

\* the posts of the site: two of February, two of January, one of another
\* subcategory; the archive holds the full record of what the hot shard lists
CAT_POST(slugText, date, body) ==
  [slug |-> slugText, category_slug |-> CAT_EU, date |-> date, body |-> body]
HOT_A == CAT_POST(<<"a">>, ArchiveYear * 100 + 2, EMPTY)
HOT_B == CAT_POST(<<"b">>, ArchiveYear * 100 + 2, EMPTY)
ARCHIVED_A == CAT_POST(<<"a">>, ArchiveYear * 100 + 2, FULL_TEXT)
ARCHIVED_B == CAT_POST(<<"b">>, ArchiveYear * 100 + 2, FULL_TEXT)
ARCHIVED_C == CAT_POST(<<"c">>, ArchiveYear * 100 + 1, FULL_TEXT)
ARCHIVED_D == CAT_POST(<<"d">>, ArchiveYear * 100 + 1, FULL_TEXT)
ASIA_POST == [slug |-> <<"x">>, category_slug |-> CAT_ASIA, date |-> ArchiveYear * 100 + 1]
HotShards == {NULL} \cup {[items |-> l] : l \in {<< >>, <<HOT_A>>, <<HOT_B, HOT_A>>}}
FebruaryShards ==
  {[items |-> l] : l \in {<< >>, <<ARCHIVED_A>>, <<ARCHIVED_A, ARCHIVED_B>>, <<ARCHIVED_B>>}}
JanuaryShards ==
  {[items |-> l] : l \in {<<ARCHIVED_C>>, <<ARCHIVED_D, ARCHIVED_C>>, <<ASIA_POST, ARCHIVED_C>>}}
\* the posts of a payload
postsOf(payload) == normalizePostsPayload(payload)

\* a summary whose entries count the posts of the scope's files
SummaryWith(perPage, items, months) ==
  [per_page |-> perPage,
   parents |-> <<[parent |-> NEWS,
                  children |-> <<[child |-> EU, items |-> items, months |-> months],
                                 [child |-> INDEX, items |-> items, months |-> months]>>]>>]
MonthsOfSite == <<[year |-> ArchiveYear, month |-> 2], [year |-> ArchiveYear, month |-> 1]>>

CategorySites ==
  {[cat |-> c, pageParam |-> n, hot |-> h, archive |-> <<j, f>>,
    hotSummary |-> IF hs THEN SummaryWith(pp, Len(postsOf(h)), << >>) ELSE NULL,
    archiveSummary |-> IF as THEN SummaryWith(0, Len(postsOf(j)) + Len(postsOf(f)), MonthsOfSite)
                       ELSE NULL,
    legacy |-> [array |-> <<ARCHIVED_C, ASIA_POST>>]] :
     c \in {EU, NEWS}, n \in 0..MaxPageParam, h \in HotShards, f \in FebruaryShards,
     j \in JanuaryShards, hs \in BOOLEAN, as \in BOOLEAN, pp \in {0, 1, 2}}

InitCategory ==
  /\ NoFetch
  /\ NoScope
  /\ NoSubcategory
  /\ NoFeed
  /\ resolver = "category.js"
  /\ pc = "loadHotCategory"
  /\ categorySite \in CategorySites
  /\ archiveWalk = NULL
  /\ categoryPage = NULL
  /\ shardLog = << >>
  /\ NoPage
  /\ NoVerify
  /\ NoListing
  /\ NoRotation

NextCategory ==
  \/ hotCategorySettled
  \/ archiveMonthSettled
  \/ categoryRendered
  \/ legacyDatasetLoaded

SpecCategory == InitCategory /\ [][NextCategory]_vars

\* ================================================================== claims
\* the functions that make the requests of each tier
ArchiveSteps ==
  {"loadArchivePost", "searchArchiveByMonths", "searchArchiveViaManifest",
   "archiveManifestNext"}
HotSteps == {"loadHotPost", "searchHotViaManifest", "hotManifestNext"}
AfterHotSteps == {"ensureArchiveFromHot", "loadCanonicalFromHot"}
LegacySteps == {"loadLegacyPost", "loadLegacyPostAgain"}

\* the log positions of the requests made for slug candidate c by the steps
ProbesBy(c, steps) == {i \in 1..Len(log) : log[i].call = c /\ log[i].by \in steps}
\* two log positions of one loadArticleForSlug call, in order
SameCall(i, j) == i < j /\ log[i].call = log[j].call
\* loadArticle has settled
Settled == pc \in {"main", "done"}
\* loadArticle has settled with a result object
Found == Settled /\ "source" \in DOMAIN outcome
\* the item looked for is in the hot shard of the hinted scope
InHotShardOfScope == world.hot # NOWHERE /\ world.hot.scope = scopeHint

\* the order of the tiers as stated: hot, archive, legacy
StatedRank(by) == IF by \in HotSteps THEN 1 ELSE IF by \in LegacySteps THEN 3 ELSE 2
\* the order of the calls in loadArticleForSlug of each script
ChainRank(by) ==
  IF resolver = "part_008"
  THEN (IF by \in ArchiveSteps THEN 1 ELSE IF by \in HotSteps THEN 2
        ELSE IF by \in AfterHotSteps THEN 3 ELSE 4)
  ELSE (IF by \in HotSteps THEN 1 ELSE IF by \in AfterHotSteps THEN 2 ELSE 3)

Asked == \E i \in 1..Len(slugCandidates) : slugify(slugCandidates[i]) = SLUG_A
\* the item is in no hot shard and in the archive shard of a month the
\* Summary lists for the hinted scope
ArchivedForScope ==
  /\ world.hot = NOWHERE
  /\ world.archive # NOWHERE /\ world.archive.scope = scopeHint
  /\ world.listed
\* the month shard that holds the item
ShardOfItem ==
  Res("archive", world.archive.scope.parent, world.archive.scope.child,
      YearOf(world.archive.month), MonthOf(world.archive.month))
\* loadArticle settled with the archived record, found by the archive probe
ArchivedRecordReturned ==
  /\ Found
  /\ outcome.source = "archive"
  /\ outcome.post = ArchiveRecord(world.archive.kind, world.archive.month)
  /\ hotResult = NULL

HotShardsBy(c, steps) == {log[i].res : i \in {k \in ProbesBy(c, steps) : log[k].res.tier = "hot"}}
\* the hot shard of the hinted scope
ShardOfHint == Res("hot", scopeHint.parent, scopeHint.child, 0, 0)

\* C3 as stated: with a child other than index in the requested scope, a hot
\* hit is only ever taken from the hot shard of exactly that scope and no hot
\* shard with child = index is tried
C3_ExactHotScope ==
  scopeHint.child # INDEX
    => /\ hotResult # NULL => hotResult.scope = scopeHint
       /\ \A i \in 1..Len(log) : log[i].res.tier = "hot" => log[i].res.child # INDEX

\* C3 (amended): the hot shard of the exact requested scope is tried first
\* and a hit in it is taken; when it misses or cannot be fetched, the
\* shards the hot manifest lists are searched from the last entry to the
\* first, the parent's index shard and index/index included, and the hit is
\* taken from the shard that holds the slug among the items of its own scope
C3_ExactThenManifest ==
  /\ hotResult # NULL
       => /\ hotResult.scope = world.hot.scope
          /\ hotResult.post = HotStub(world.hot.kind)
          /\ ShardOfHint \in HotShardsBy(index, {"loadHotPost"})
          /\ hotResult.scope # scopeHint
               => \E i \in ProbesBy(index, {"searchHotViaManifest"}) :
                    log[i].res = HotManifestRes
  /\ \A c \in 1..index :
       /\ HotShardsBy(c, {"loadHotPost"}) \subseteq {ShardOfHint}
       /\ HotShardsBy(c, HotSteps \ {"loadHotPost", "hotManifestNext"}) = {}
  /\ (Settled /\ Asked /\ failures = 0 /\ world.hot # NOWHERE /\ world.hot.kind # "foreign"
        /\ (resolver = "part_008" => world.archive = NOWHERE))
       => hotResult # NULL
  /\ (hotResult # NULL /\ InHotShardOfScope
        /\ \A i \in ProbesBy(index, {"loadHotPost"}) : ~log[i].failed)
       => ProbesBy(index, {"hotManifestNext"}) = {}

\* a request scoped to news/eu answered from the news/index shard
C3_HitInIndexShard ==
  /\ scopeHint = SC_EU
  /\ hotResult # NULL /\ hotResult.scope = SC_NEWS
  /\ page = "article"

\* the files requested for slug candidate c
FilesOf(c) == {log[i].res : i \in {k \in 1..Len(log) : log[k].call = c}}
\* the files that hold archived articles
ArchiveTierFiles == {"summary", "archive", "archive-manifest", "canonical"}

Returned(c) == Settled \/ index > c

NoRefetch(c) ==
  \A i, j \in 1..Len(log) :
    (i < j /\ log[i].call = c /\ log[j].call = c /\ log[i].issued /\ log[j].issued)
      => log[i].res # log[j].res

\* C6 as stated: within one call no tier's lookup is issued a second time:
\* the legacy index is fetched at most once per slug and a hot shard whose
\* fetch failed is not fetched again
C6_NoTierProbedTwice == \A c \in 1..index : NoRefetch(c)

\* the empty (falsy) value of a field: no date, no URL text, ''
EmptyOf(name) ==
  IF name \in {"date", "published_at", "created_at", "updated_at"} THEN 0
  ELSE IF name \in {"canonical", "archive_url", "url"} THEN NoUrl
  ELSE EMPTY
\* the fields of the merged record the archive article has a value for
ArchiveFields == {name \in DOMAIN mergeResult \cap DOMAIN mergeArgs.archive :
                    mergeArgs.archive[name] # EmptyOf(name)}

\* C7 as stated: every field of the merged record equals the archive
\* record's value whenever the archive record has a non-empty value for it
C7_ArchiveFieldsWin ==
  pc = "merged" => \A name \in ArchiveFields : mergeResult[name] = mergeArgs.archive[name]

\* C7 (amended): every field of the merged record other than slug equals the
\* archive record's value whenever that value is non-empty, and is taken from
\* the hot stub otherwise (body: after the archive's content; excerpt: before
\* the archive's summary_html, stripped of tags); slug is the slugified form
\* of the archive's slug, of the stub's slug when the archive has none
C7_ArchiveFieldsWinButSlug ==
  pc = "merged"
    => /\ \A name \in ArchiveFields \ {"slug"} : mergeResult[name] = mergeArgs.archive[name]
       /\ mergeResult.slug = IF mergeArgs.archive.slug # EMPTY THEN SLUG_A ELSE SLUG_B
       /\ mergeArgs.archive.title = EMPTY => mergeResult.title = mergeArgs.hot.title
       /\ mergeArgs.archive.body = EMPTY
            => mergeResult.body = IF mergeArgs.archive.content # EMPTY THEN OLD_TEXT
                                  ELSE IF mergeArgs.hot.body # EMPTY THEN mergeArgs.hot.body
                                  ELSE mergeArgs.archive.summary_html
       /\ mergeResult.excerpt = IF mergeArgs.hot.excerpt # EMPTY THEN mergeArgs.hot.excerpt
                                ELSE IF mergeArgs.archive.summary_html = EMPTY THEN EMPTY
                                ELSE <<" ", "x">>
       /\ mergeArgs.archive.date = 0 => mergeResult.date = mergeArgs.hot.date
       /\ mergeArgs.archive.canonical = NoUrl
            => mergeResult.canonical = mergeArgs.hot.canonical

\* a merge of an archive article that has a body and a slug as typed with a
\* stub that has a body of its own
C7_BothHaveBody ==
  /\ pc = "merged"
  /\ mergeArgs.archive.body = FULL_TEXT /\ mergeArgs.hot.body = OLD_TEXT
  /\ mergeArgs.archive.slug = RAW_A
  /\ mergeResult.body = FULL_TEXT

\* a page that rendered an article whose record has no canonical field
DerivedCanonical ==
  /\ pc = "done" /\ page = "article"
  /\ UrlField(outcome.post, "canonical") = NoUrl

\* the segments spell parent, child, a four-digit year, a two-digit month, slug
DatedPath(segs, slug) ==
  /\ Len(segs) = 5
  /\ segs[1] # EMPTY /\ segs[2] # EMPTY
  /\ IsDigits(segs[3], 4) /\ IsDigits(segs[4], 2)
  /\ segs[5] = slug

\* the segments spell parent, child, slug and nothing else
UndatedPath(segs, slug) ==
  /\ Len(segs) = 3
  /\ segs[1] # EMPTY /\ segs[2] # EMPTY
  /\ segs[3] = slug

\* the year and month the canonical path of part_008 is built with: those of
\* the archive shard the record was read from, else those of the record's
\* archive_url, else those of its date; 0 when it has none of them
PathMonth ==
  IF ~IsNull(outcome.context) THEN outcome.context.year * 100 + outcome.context.month
  ELSE IF UrlTruthy(UrlField(outcome.post, "archive_url"))
       THEN parseInt(outcome.post.archive_url.segs[3]) * 100
              + parseInt(outcome.post.archive_url.segs[4])
  ELSE Num(outcome.post, "date")

\* the parent and child of that path: those of the archive shard the record
\* was read from; else, in part_008, index/index for a record without a year
\* and a month; else those of the hot shard the record was found in; else
\* those of the record's own category
PathScope ==
  IF resolver = "part_008" /\ ~IsNull(outcome.context)
  THEN Scope(outcome.context.parent, outcome.context.child)
  ELSE IF resolver = "part_008" /\ PathMonth = 0 THEN SC_ROOT
  ELSE IF ~IsNull(outcome.scope) THEN Scope(outcome.scope.parent, outcome.scope.child)
  ELSE IF outcome.post.category_slug = CAT_EU THEN SC_EU
  ELSE SC_NEWS

CanonicalText(u) == IF u.kind = "url" THEN [u EXCEPT !.pad = FALSE] ELSE NoUrl

\* the explicit canonical of the item found: that of the record the page
\* renders, else that of the hot stub the record was reached through
ExplicitCanonical ==
  IF CanonicalText(UrlField(outcome.post, "canonical")) # NoUrl
  THEN CanonicalText(outcome.post.canonical)
  ELSE IF IsNull(hotResult) THEN NoUrl
  ELSE CanonicalText(UrlField(hotResult.post, "canonical"))

\* C9 as stated: a page that renders an item with an explicit canonical
\* publishes that canonical (surrounding whitespace aside), never a derived
\* path, whichever way the item was found
C9_ExplicitCanonicalPublished ==
  (pc = "done" /\ page = "article" /\ ExplicitCanonical # NoUrl)
    => published = ExplicitCanonical

\* the month shards fetched for slug candidate c by the walk over the months
\* the Summary lists for the scope
MonthFetches(c) ==
  {i \in ProbesBy(c, {"searchArchiveByMonths"}) : log[i].issued /\ log[i].res.tier = "archive"}
\* the archive shards fetched for slug candidate c by the archive probe of
\* part_008: the walk over the listed months, the walk over the manifest and
\* the lookup of the archive record of a hot stub
ArchiveFetches(c) ==
  {i \in ProbesBy(c, ArchiveSteps \cup {"ensureArchiveFromHot"}) :
     log[i].issued /\ log[i].res.tier = "archive"}
\* the number of months the Summary lists for the hinted scope
ListedMonths == IF world.listed THEN world.months ELSE 0
\* loadArchivePost read the Summary for slug candidate c
SummaryRead(c) == \E i \in ProbesBy(c, {"loadArchivePost"}) : ~log[i].failed
\* the walk over the listed months ended without a hit for slug candidate c
WalkedOut(c) == ProbesBy(c, {"searchArchiveViaManifest"}) # {}

\* C10 as stated: for one resolve call the walk over the months the Summary
\* lists for the scope fetches at most MAX_MONTHS month shards
C10_TwelveMonthLookback ==
  \A c \in 1..index : Cardinality(MonthFetches(c)) <= MAX_MONTHS

\* C10 (amended): for one resolve call the archive probe of part_008 fetches no month
\* shard twice and at most one shard per month the Summary lists for the
\* scope, with no cap on the lookback: when the slug is in none of them, every
\* listed month is fetched, however many the Summary lists
C10_EveryListedMonth ==
  \A c \in 1..index :
    /\ \A i, j \in ArchiveFetches(c) : i # j => log[i].res # log[j].res
    /\ Cardinality(MonthFetches(c)) <= ListedMonths
    /\ (c = 1 /\ SummaryRead(c) /\ WalkedOut(c))
         => Cardinality(MonthFetches(c)) = ListedMonths

\* a resolve call whose walk over the listed months fetched more than
\* MAX_MONTHS month shards before the manifest was turned to
C10_LongWalk ==
  /\ WalkedOut(1)
  /\ Cardinality(MonthFetches(1)) > MAX_MONTHS

\* the month shards asked for, for slug candidate c, by the walk over the
\* months the Summary lists (fetched or served from the shard cache)
MonthProbes(c) ==
  {i \in ProbesBy(c, {"searchArchiveByMonths"}) : log[i].res.tier = "archive"}
\* the request at log position i was answered with the shard that holds the
\* item, and the item is what the slug candidate of that call names
FoundAt(i) ==
  /\ world.archive # NOWHERE /\ log[i].res = ShardOfItem
  /\ ~log[i].failed
  /\ slugify(slugCandidates[log[i].call]) = SLUG_A

\* C11: in the archive probe the month shards of the scope are asked for one
\* after the other, each one a month older than the one before, and once a
\* shard has given the slug no further archive shard is asked for in the call
C11_NewestFirstUntilFound ==
  \A c \in 1..index :
    /\ \A i, j \in MonthProbes(c) :
         i < j => /\ log[i].res.parent = log[j].res.parent
                  /\ log[i].res.child = log[j].res.child
                  /\ MonthIndex(log[i].res.year, log[i].res.month)
                       > MonthIndex(log[j].res.year, log[j].res.month)
    /\ \A i \in MonthProbes(c) :
         FoundAt(i) => \A j \in (i + 1)..Len(log) :
                         log[j].call = c => log[j].res.tier # "archive"

\* an archived record found in the oldest listed month, after the shard of a
\* more recent month was fetched and did not hold it
C11_FoundInOlderMonth ==
  /\ pc = "done" /\ page = "article" /\ outcome.source = "archive"
  /\ Cardinality(MonthProbes(index)) >= 2
  /\ FoundAt(Len(log))

\* the shards asked for, for slug candidate c, by the walk over the archive
\* manifest
ManifestProbes(c) ==
  {i \in ProbesBy(c, {"archiveManifestNext"}) : log[i].res.tier = "archive"}
\* the place of a shard in the list of the archive manifest
ManifestPlace(res) ==
  CHOOSE k \in 1..Len(FileOf(world, ArchiveManifestRes).shards) :
    LET entry == FileOf(world, ArchiveManifestRes).shards[k]
    IN /\ entry.parent = res.parent /\ entry.child = res.child
       /\ entry.year = res.year /\ entry.month = res.month
\* the Summary was asked for at log position i and gave no months for the scope
NoMonthsAt(i) ==
  /\ log[i].by = "loadArchivePost"
  /\ log[i].failed \/ ~world.listed

\* C12 as stated: when the Summary has no entry for the scope the manifest is
\* consulted and its shards are probed newest first: never a shard of a later
\* (year, month) after a shard of an earlier one
C12_ManifestNewestFirst ==
  \A c \in 1..index :
    (\E i \in ProbesBy(c, {"loadArchivePost"}) : NoMonthsAt(i))
      => \A i, j \in ManifestProbes(c) :
           i < j => MonthIndex(log[i].res.year, log[i].res.month)
                      >= MonthIndex(log[j].res.year, log[j].res.month)

\* C12 (amended): when the Summary gives no months for the scope the next
\* request of the call is the one for the archive manifest, and the shards of
\* the manifest are probed in reverse list order, the last entry first, which
\* is newest first among the shards of one scope only
C12_ManifestLastEntryFirst ==
  \A c \in 1..index :
    /\ \A i \in ProbesBy(c, {"loadArchivePost"}) :
         (NoMonthsAt(i) /\ i < Len(log) /\ log[i + 1].call = c)
           => /\ log[i + 1].by = "searchArchiveViaManifest"
              /\ log[i + 1].res = ArchiveManifestRes
    /\ \A i, j \in ManifestProbes(c) :
         i < j => /\ ManifestPlace(log[i].res) > ManifestPlace(log[j].res)
                  /\ (log[i].res.parent = log[j].res.parent
                        /\ log[i].res.child = log[j].res.child)
                       => MonthIndex(log[i].res.year, log[i].res.month)
                            > MonthIndex(log[j].res.year, log[j].res.month)

\* a walk over the manifest that went from the oldest shard of one scope to
\* the newest shard of the scope listed before it
C12_OlderShardFirst ==
  /\ ~world.listed
  /\ \E i, j \in ManifestProbes(index) :
       /\ i < j
       /\ MonthIndex(log[i].res.year, log[i].res.month)
            < MonthIndex(log[j].res.year, log[j].res.month)

\* the requests that went out for shard files
ShardRequests == {i \in 1..Len(log) : log[i].issued /\ log[i].res.tier \in {"hot", "archive"}}
RequestsFor(res) == {i \in ShardRequests : log[i].res = res}

IndexFailed(i) == \E k \in 1..Len(log) : log[k].res = MonthIndexRes(i) /\ log[k].failed
RECURSIVE EntriesFrom(_)
\* the entries of the months from number i on, in the order of the months
EntriesFrom(i) ==
  IF i > Len(indexMonths) THEN << >>
  ELSE (IF IndexFailed(i) THEN << >> ELSE normalizeEntries(FileOf(world, MonthIndexRes(i))))
         \o EntriesFrom(i + 1)

\* C14: the results of the scope/month fetches issued together are combined
\* only after every one of them has settled, and the combined result is the
\* same for every order in which they complete: the entries of the months in
\* the order of the month list
C14_CombinedAfterAllSettled ==
  /\ pc # "combined" => combined = << >>
  /\ pc = "combined"
       => /\ \A i \in 1..Len(indexMonths) : Arrived(i)
          /\ combined = EntriesFrom(1)

\* the entries were combined after an older month answered before a newer one
C14_OutOfOrderCompletion ==
  /\ pc = "combined"
  /\ Len(arrival) > 1
  /\ arrival[1] > arrival[2]
  /\ combined # << >>

\* the fingerprint of a post as stated: the first available of id, slug, url,
\* guid, title+date
Fingerprint(post) == firstKeyOf(post)
\* the posts of the batch the Deduper has let through
Retained == {i \in 1..Len(addResults) : addResults[i]}

\* C15 as stated: the dedup store takes two items for the same identity only
\* if their fingerprints are equal, so a post is turned away only when a post
\* retained before it has the same fingerprint
C15_DistinctFingerprintsRetained ==
  \A j \in 1..Len(addResults) :
    ~addResults[j] => \E i \in Retained : i < j /\ Fingerprint(batch[i]) = Fingerprint(batch[j])

\* the entries of the manifest the script has read
ListedShards ==
  IF IsNull(hotManifestFile) THEN {}
  ELSE {hotManifestFile.shards[i] : i \in 1..Len(hotManifestFile.shards)}
\* the shard file an entry names
ShardFile(entry) == HOT_ROOT \o normalizeRelative(entry.path)
Unusable(p) == statSync(p) # "full"
Reported == {missingFiles[i] : i \in 1..Len(missingFiles)}
             \cup {emptyFiles[i] : i \in 1..Len(emptyFiles)}

Verified ==
  {DATA_INDEX} \cup
  {ShardFile(entry) : entry \in {e \in ListedShards :
     (e.is_global \/ e.critical) /\ normalizeRelative(e.path) # << >>
       /\ normalizeRelative(e.path)[Len(normalizeRelative(e.path))] = "index.json"}}

SummaryUnavailable == Answered(sources.summary) \in {"failed", "null"}
ListingsSettled == \A c \in DOMAIN views : views[c].step = "done"

\* C17 as stated, its last clause: when the Summary cannot be loaded no listing
\* is left in its loading or unrendered state once its requests have settled
C17_NoListingLeftUnrendered ==
  SummaryUnavailable /\ ListingsSettled
    => \A c \in DOMAIN views : views[c].shown \notin {"loading", "unrendered"}

\* the items of a sequence
ItemsOf(items) == {items[i] : i \in 1..Len(items)}
\* the distinct identities of a scope across both tiers of a snapshot
IdentitiesOf(snap, sc) ==
  {fingerprintOf(it) : it \in ItemsOf(snap.hot[sc])}
    \cup UNION {{fingerprintOf(it) : it \in ItemsOf(snap.archive[b])} :
                  b \in {x \in DOMAIN snap.archive : x.scope = sc}}
\* the number of items of a scope in both tiers of a snapshot
ItemCount(snap, sc) ==
  Len(snap.hot[sc]) + Len(snap.archive[[scope |-> sc, year |-> ArchiveYear, month |-> 1]])
    + Len(snap.archive[[scope |-> sc, year |-> ArchiveYear, month |-> 2]])

\* C18: for every scope the distinct identities present across the hot and
\* the archive tier before a rotation pass are those present after it
C18_NoIdentityLost ==
  \A k \in 2..Len(snapshots) : \A sc \in RotationScopes :
    IdentitiesOf(snapshots[k], sc) = IdentitiesOf(snapshots[k - 1], sc)

\* a pass moved an item into a bucket that held the identity already: the
\* duplicate collapsed, and another identity stayed archived beside it
C18_DuplicateCollapsed ==
  /\ Len(snapshots) > 1
  /\ ItemCount(snapshots[2], SC_EU) < ItemCount(snapshots[1], SC_EU)
  /\ Len(snapshots[2].hot[SC_EU]) < Len(snapshots[1].hot[SC_EU])
  /\ Cardinality(IdentitiesOf(snapshots[2], SC_EU)) > 1

\* whole UTC days between the date of an item and the clock of the run
WholeDaysOld(item) == (RotationNow - item.date) \div 2
\* the archive shard of the publish month of an item of a scope
BucketOf(snap, sc, item) ==
  snap.archive[[scope |-> sc, year |-> ArchiveYear,
                month |-> IF item.date < 62 THEN 1 ELSE 2]]

WithSlug(items, normalized) ==
  {i \in 1..Len(items) : Field(items[i], "slug") # EMPTY /\ slugify(items[i].slug) = normalized}
SlugsOf(items) ==
  {slugify(items[i].slug) : i \in {j \in 1..Len(items) : Field(items[j], "slug") # EMPTY}} \ {EMPTY}
\* the keys dedupePosts tells the items of a list apart by
KeysOf(items) == {resolvePostKey(items[i]) : i \in 1..Len(items)}

\* C21: every item list a shard fetch hands to its consumers holds at most
\* one item per normalized slug
C21_SlugUniquePerShard ==
  handed # NULL => \A sl \in SlugsOf(handed.items) : Cardinality(WithSlug(handed.items, sl)) <= 1

\* C21 (amended): the lists handed on by the shard fetches of part_008 hold
\* at most one item per non-empty normalized slug and lose no key of the
\* payload; the shard fetches of category.js hand on every item of the payload
C21_ResolverShardsDeduplicated ==
  handed # NULL =>
    /\ resolver = "part_008" =>
         /\ \A sl \in SlugsOf(handed.items) : Cardinality(WithSlug(handed.items, sl)) = 1
         /\ KeysOf(handed.items) = KeysOf(shardFile.items)
    /\ resolver = "category.js" => Len(handed.items) = Len(shardFile.items)

\* part_008 was answered with two items of one normalized slug and handed
\* on one of them
C21_DuplicateDropped ==
  /\ handed # NULL
  /\ resolver = "part_008"
  /\ \E sl \in SlugsOf(shardFile.items) : Cardinality(WithSlug(shardFile.items, sl)) > 1
  /\ Len(handed.items) < Len(shardFile.items)

\* the category value of the page address as typed
CategoryValue == IF slugify(urlParams.sub) # EMPTY THEN urlParams.sub ELSE urlParams.cat
\* a value of the form parent/child
IsComposite(value) ==
  /\ Len(split(value, "/")) = 2
  /\ \A i \in 1..2 : slugify(split(value, "/")[i]) # EMPTY

\* C22: the scope of a listing is the entry of the taxonomy mapping for the
\* normalized category value when there is one; a composite value
\* parent/child the mapping does not know resolves to the scope (parent, child)
C22_TaxonomyBeforeLiteralSplit ==
  listingScope # NULL =>
    /\ slugify(CategoryValue) \in DOMAIN CATEGORY_PARENT_LOOKUP
         => listingScope = CATEGORY_PARENT_LOOKUP[slugify(CategoryValue)]
    /\ slugify(CategoryValue) \notin DOMAIN CATEGORY_PARENT_LOOKUP /\ IsComposite(CategoryValue)
         => listingScope = Scope(slugify(split(CategoryValue, "/")[1]),
                                 slugify(split(CategoryValue, "/")[2]))

\* the last segment of a value after normalization
LastSegment(value) == split(normalizeSlug(value), "/")[Len(split(normalizeSlug(value), "/"))]
\* the subcategory part of a category value: what follows its first segment
SubcategoryPart(value) ==
  IF Len(split(normalizeSlug(value), "/")) > 1 THEN LastSegment(value) ELSE EMPTY

\* C24: readSubcategorySlug returns the normalized last segment of the sub /
\* subcategory parameter when there is one, otherwise of the subcategory part
\* of the cat parameter, otherwise of the data-subcategory value of the section
C24_SubcategoryFromQueryThenAttribute ==
  subcategoryRead # NULL =>
    subcategoryRead =
      IF Or(locationSearch.sub, locationSearch.subcategory) # EMPTY
      THEN LastSegment(Or(locationSearch.sub, locationSearch.subcategory))
      ELSE IF SubcategoryPart(locationSearch.cat) # EMPTY
           THEN SubcategoryPart(locationSearch.cat)
           ELSE LastSegment(sectionData.subcategory)

\* the events of one kind, in the order in which they happened
FeedEvents(kind) == SelectSeq(feedLog, LAMBDA e : e.kind = kind)
\* the queue as handleCategoryPayload set it
QueueAsSet == IF FeedEvents("queue") = << >> THEN << >> ELSE FeedEvents("queue")[1].entries
\* the entries the accepted clicks took, in order
TakenEntries == [i \in 1..Len(FeedEvents("taken")) |-> FeedEvents("taken")[i].entry]
\* the entry taken last before position i of the log
TakenBefore(i) ==
  LET k == CHOOSE j \in 1..i : feedLog[j].kind = "taken"
                                 /\ \A l \in (j + 1)..i : feedLog[l].kind # "taken"
  IN feedLog[k].entry

\* C23: the accepted clicks take the entries of the queue in queue order,
\* each click asks for the entry it took and for no other, and once the last
\* entry is taken the button is disabled and no further entry is asked for
C23_QueueWalkedInOrder ==
  /\ Len(FeedEvents("queue")) <= 1
  /\ TakenEntries \o categoryState.queue = QueueAsSet
  /\ \A i \in 1..Len(feedLog) :
       feedLog[i].kind = "request"
         => /\ \E j \in 1..i : feedLog[j].kind = "taken"
            /\ feedLog[i].entry = TakenBefore(i)
  /\ Len(SelectSeq(feedLog, LAMBDA e : e.kind = "request" /\ e.index = 0)) = Len(TakenEntries)
  /\ QueueAsSet # << >> /\ categoryState.queue = << >> => loadMoreButton.disabled

\* a queue of two entries was walked to its end, and a click came after that
C23_LastEntryConsumed ==
  /\ Len(QueueAsSet) = 2
  /\ QueueAsSet[1] # QueueAsSet[2]
  /\ TakenEntries = QueueAsSet
  /\ ~categoryState.isLoading
  /\ clicks.total = 3
  /\ loadMoreButton.disabled

\* C26: at most one archive batch request is out at any time, and a click
\* that comes during a load takes no entry from the queue
C26_OneBatchInFlight ==
  /\ Cardinality(inflight) <= 1
  /\ categoryState.isLoading <=> inflight # {}
  /\ Len(TakenEntries) <= clicks.total - clicks.loading
  /\ Len(TakenEntries) + Len(categoryState.queue) = Len(QueueAsSet)

\* a click came while a request was out and an entry was still in the queue
C26_ClickDuringLoad ==
  /\ clicks.loading > 0
  /\ inflight # {}
  /\ categoryState.queue # << >>

\* the archive entry has been loaded
LoadedEntry(entry) ==
  \E j \in 1..Len(feedLog) : feedLog[j].kind = "settled" /\ feedLog[j].ok /\ feedLog[j].entry = entry

\* C27: an entry whose fetch failed is still in the queue (or has been loaded
\* since), and the end of the archive is reported only when every entry of
\* the queue has been loaded
C27_FailedEntryKept ==
  /\ \A i \in 1..Len(feedLog) :
       feedLog[i].kind = "settled" /\ ~feedLog[i].ok
         => \/ \E k \in 1..Len(categoryState.queue) : categoryState.queue[k] = feedLog[i].entry
            \/ LoadedEntry(feedLog[i].entry)
            \/ \E f \in inflight : f.entry = feedLog[i].entry
  /\ statusEl = "You have reached the end of the archive."
       => \A k \in 1..Len(QueueAsSet) : LoadedEntry(QueueAsSet[k])

\* C29: no two posts of the list have the same identity, whatever the index
\* and the archive batches held
C29_NoIdentityRenderedTwice ==
  \A i, j \in 1..Len(postList.nodes) :
    i < j /\ Fingerprint(postList.nodes[i]) # << >>
      => Fingerprint(postList.nodes[i]) # Fingerprint(postList.nodes[j])

\* an archive batch held a post that was in the list already beside a new one
C29_DuplicateSkipped ==
  \E i \in 1..Len(feedLog) :
    /\ feedLog[i].kind = "settled"
    /\ feedLog[i].ok
    /\ feedLog[i].added > 0
    /\ feedLog[i].added < feedLog[i].offered

\* C30: a feed that is loading leaves the loading state in the end, with the
\* button no longer busy and enabled exactly when the queue has entries left
C30_LoadingEnds ==
  categoryState.isLoading
    ~> (/\ ~categoryState.isLoading
        /\ ~loadMoreButton.busy
        /\ loadMoreButton.disabled = (categoryState.queue = << >>))

\* every URL of a batch with a day failed, and the feed is not loading
C30_AllCandidatesFailed ==
  /\ ~categoryState.isLoading
  /\ \E i \in 1..Len(feedLog) :
       feedLog[i].kind = "settled" /\ ~feedLog[i].ok /\ fetchersOf(feedLog[i].entry) = 4

\* C25: an article that loadArticle settles with has the slug that was asked
\* for, once both are normalised, on every path of either resolver
C25_ResultMatchesSlug ==
  Found => slugify(Field(outcome.post, "slug")) = slugify(slugValue)

\* the keys of a list of posts, in order
KeysInOrder(posts) == [i \in 1..Len(posts) |-> resolvePostKey(posts[i])]
\* the deduplicated union of the hot posts and the archive posts of the
\* scope of the page, newest first
UnionOfScope ==
  dedupePosts(sortPosts(
    categoryFilterPostsByScope(postsOf(categorySite.hot) \o postsOf(categorySite.archive[2])
                                 \o postsOf(categorySite.archive[1]),
                               scopeOfPage, CategoryLookup)))
\* the hot category was rendered, the archive summary was read and every
\* request for a month was answered
RenderedFromShards ==
  /\ pc = "rendered"
  /\ ~IsNull(categoryPage)
  /\ categoryPage.from = "hot"
  /\ ~IsNull(categorySite.archiveSummary)
  /\ \A i \in 1..Len(shardLog) : shardLog[i].ok

\* C28: the page shown holds exactly the posts ranked (p-1)*perPage+1 to
\* p*perPage of the deduplicated union of the hot and the archive posts of
\* the scope, newest first: never short while the union has a post of that rank
C28_PageIsSliceOfUnion ==
  RenderedFromShards
    => KeysInOrder(categoryPage.pagedPosts)
         = KeysInOrder(pageSlice(UnionOfScope, categoryPage.page, categoryPage.perPage))

====
